---- MODULE Spec2Model ----
(***************************************************************************)
(* A model of the service generator of api2ts (serviceGenerator.ts): the   *)
(* grouping pass of the constructor, the synthesis passes getServiceTP and *)
(* getInterfaceTP, and the pure helpers they call.                         *)
(*                                                                         *)
(* JavaScript strings are modelled as sequences of one-character strings,  *)
(* so that replace, split, camelCase and the regular expressions of the    *)
(* source are computed character by character.  `undefined` is NoStr.      *)
(***************************************************************************)
EXTENDS Integers, Sequences, FiniteSets, TLC

VARIABLES
    openAPIData,    \* the input document, shared with the caller (mutable)
    config,         \* this.config
    apiData,        \* this.apiData: ordered <<tag, list of APIDataType>>
    mappings,       \* this.mappings
    classNameList,  \* this.classNameList
    serviceTP,      \* the value returned by the last getServiceTP()
    interfaceTP,    \* the value returned by the last getInterfaceTP()
    prevIR,         \* the IR of the previous run on the same document
    calls,          \* how often each synthesis pass ran on this generator
    pc,             \* "new" before the constructor ran, "ready" after, then
                    \* the position of genFile
    files,          \* the output folder of genFile
    fin             \* inputs and results of the pure-function checks

vars == <<openAPIData, config, apiData, mappings, classNameList, serviceTP,
          interfaceTP, prevIR, calls, pc, files, fin>>

----------------------------------------------------------------------------
(* Bounds of the model.                                                    *)

MaxOps == 2
MaxCalls == 2
MaxRuns == 2
MaxEnum == 3
MaxAllOf == 2
MaxName == 3

----------------------------------------------------------------------------
(* JavaScript strings.                                                     *)

NoStr == <<"undefined!">>

LowerCh == <<"a","b","c","d","e","f","g","h","i","j","k","l","m",
             "n","o","p","q","r","s","t","u","v","w","x","y","z">>
UpperCh == <<"A","B","C","D","E","F","G","H","I","J","K","L","M",
             "N","O","P","Q","R","S","T","U","V","W","X","Y","Z">>
DigitCh == <<"0","1","2","3","4","5","6","7","8","9">>

Range(s) == {s[i] : i \in DOMAIN s}

LowerSet == Range(LowerCh)
UpperSet == Range(UpperCh)
DigitSet == Range(DigitCh)
WordSet == LowerSet \cup UpperSet \cup DigitSet \cup {"_"}
UpperOf == [c \in LowerSet |-> UpperCh[CHOOSE i \in DOMAIN LowerCh : LowerCh[i] = c]]
LowerOf == [c \in UpperSet |-> LowerCh[CHOOSE i \in DOMAIN UpperCh : UpperCh[i] = c]]

IsLower(c) == c \in LowerSet
IsUpper(c) == c \in UpperSet
IsDigit(c) == c \in DigitSet
\* \w of a JavaScript regular expression
IsWordCh(c) == c \in WordSet

toUpperCaseCh(c) == IF c \in LowerSet THEN UpperOf[c] ELSE c
toLowerCaseCh(c) == IF c \in UpperSet THEN LowerOf[c] ELSE c
toUpperCase(s) == [i \in DOMAIN s |-> toUpperCaseCh(s[i])]
toLowerCase(s) == [i \in DOMAIN s |-> toLowerCaseCh(s[i])]

\* `${n}` for a non-negative integer n
RECURSIVE NumStr(_)
NumStr(n) == IF n < 10 THEN <<DigitCh[n + 1]>>
             ELSE NumStr(n \div 10) \o <<DigitCh[(n % 10) + 1]>>

\* s.startsWith(p, at i-1)
MatchAt(s, p, i) ==
    /\ i + Len(p) - 1 <= Len(s)
    /\ \A k \in 1..Len(p) : s[i + k - 1] = p[k]
startsWith(s, p) == MatchAt(s, p, 1)
\* s.indexOf(p), 1-based; 0 when p does not occur
RECURSIVE indexFrom(_, _, _)
indexFrom(s, p, i) ==
    IF i + Len(p) - 1 > Len(s) THEN 0
    ELSE IF MatchAt(s, p, i) THEN i
    ELSE indexFrom(s, p, i + 1)
indexOf(s, p) == indexFrom(s, p, 1)
includes(s, p) == indexOf(s, p) # 0
\* s.replace(p, r) with a string pattern: the first occurrence only
replaceStr(s, p, r) ==
    LET i == indexOf(s, p) IN
    IF i = 0 THEN s
    ELSE SubSeq(s, 1, i - 1) \o r \o SubSeq(s, i + Len(p), Len(s))

\* s.split(c) for a one-character separator
RECURSIVE split(_, _)
split(s, c) ==
    LET i == indexOf(s, <<c>>) IN
    IF i = 0 THEN <<s>>
    ELSE <<SubSeq(s, 1, i - 1)>> \o split(SubSeq(s, i + 1, Len(s)), c)
\* a.join(sep)
RECURSIVE join(_, _)
join(a, sep) ==
    IF Len(a) = 0 THEN <<>>
    ELSE IF Len(a) = 1 THEN a[1]
    ELSE a[1] \o sep \o join(Tail(a), sep)
pop(a) == a[Len(a)]

\* s.replace(/[-_ ](\w)/g, (_all, letter) => letter.toUpperCase()), and with
\* `seps` = "-_ ." the same replacement of stripDot
RECURSIVE upperAfterSep(_, _)
upperAfterSep(s, seps) ==
    IF Len(s) = 0 THEN <<>>
    ELSE IF Len(s) >= 2 /\ s[1] \in seps /\ IsWordCh(s[2])
         THEN <<toUpperCaseCh(s[2])>> \o upperAfterSep(SubSeq(s, 3, Len(s)), seps)
         ELSE <<s[1]>> \o upperAfterSep(Tail(s), seps)

NameSeps == {"-", "_", " "}

\* lodash words(): the end (exclusive) of the word that starts at s[i], where
\* s[i] is a letter or a digit
RECURSIVE runEnd(_, _, _)
runEnd(s, i, cls) ==
    IF i <= Len(s) /\ ((cls = "l" /\ IsLower(s[i])) \/ (cls = "u" /\ IsUpper(s[i]))
                       \/ (cls = "d" /\ IsDigit(s[i])))
    THEN runEnd(s, i + 1, cls) ELSE i
wordEnd(s, i) ==
    IF IsLower(s[i]) THEN runEnd(s, i, "l")
    ELSE IF IsDigit(s[i]) THEN runEnd(s, i, "d")
    ELSE IF i < Len(s) /\ IsLower(s[i + 1]) THEN runEnd(s, i + 1, "l")
    ELSE LET j == runEnd(s, i, "u") IN
         IF j <= Len(s) /\ IsLower(s[j]) THEN j - 1 ELSE j
RECURSIVE words(_, _)
words(s, i) ==
    IF i > Len(s) THEN <<>>
    ELSE IF ~(IsLower(s[i]) \/ IsUpper(s[i]) \/ IsDigit(s[i])) THEN words(s, i + 1)
    ELSE LET j == wordEnd(s, i) IN <<SubSeq(s, i, j - 1)>> \o words(s, j)
upperFirst(w) == IF Len(w) = 0 THEN w ELSE <<toUpperCaseCh(w[1])>> \o Tail(w)
\* lodash camelCase(s)
RECURSIVE camelJoin(_, _)
camelJoin(ws, index) ==
    IF index > Len(ws) THEN <<>>
    ELSE (IF index = 1 THEN toLowerCase(ws[index])
          ELSE upperFirst(toLowerCase(ws[index]))) \o camelJoin(ws, index + 1)
camelCase(s) == IF s = NoStr THEN <<>> ELSE camelJoin(words(s, 1), 1)

----------------------------------------------------------------------------
(* NameResolver.                                                           *)

\* ReservedDict.check of the package reserved-words: the words of the dialect
\* that the strings of this model can spell
ReservedWords == { <<"d","o">>, <<"i","n">>, <<"n","e","w">> }
ReservedCheck(w) == w \in ReservedWords

\* getTypeLastName for names without C# generics ([[...]]), array suffix and
\* PublicKeyToken (the alphabet of the model has no bracket and no "=")
getTypeLastName(typeName) ==
    LET tempTypeName == IF typeName = NoStr THEN <<>> ELSE typeName
        firstTempTypeName == split(tempTypeName, ",")[1]
    IN  pop(split(pop(split(firstTempTypeName, "/")), "."))

\* .replace(/[^\w^\s^一-龥]/gi, '')
stripNonWord(s) == SelectSeq(s, LAMBDA c : IsWordCh(c) \/ c = "^" \/ c = " ")

Pinyin == <<"P","i","n","y","i","n","_">>
OpenAPIMark == <<"_","_","o","p","e","n","A","P","I","_","_">>

\* lines 93-101: a name that is "_" or all digits gets the Pinyin_ prefix
pinyinName(name) ==
    IF name = <<"_">> \/ (Len(name) > 0 /\ \A i \in DOMAIN name : IsDigit(name[i]))
    THEN Pinyin \o name
    ELSE name

resolveTypeName(typeName) ==
    IF ReservedCheck(typeName) THEN OpenAPIMark \o typeName
    ELSE pinyinName(stripNonWord(upperAfterSep(getTypeLastName(typeName), NameSeps)))

\* stripDot of util.ts
stripDot(str) == upperAfterSep(str, NameSeps \cup {"."})

----------------------------------------------------------------------------
(* Schema nodes, JavaScript values and type expressions.                   *)

\* A JavaScript primitive: k is "str", "num", "bool" or "null", v is String(value)
JSVal(k, v) == [k |-> k, v |-> v]

\* schema.required: absent, a boolean, or an array of keys
ReqNone == [k |-> "none", b |-> FALSE, a |-> <<>>]
ReqBool(b) == [k |-> "bool", b |-> b, a |-> <<>>]
ReqArr(a) == [k |-> "arr", b |-> FALSE, a |-> a]

\* A schema node with no field set; every node of the model is this record
\* with some fields replaced
Node0 == [ref |-> NoStr, type |-> NoStr, format |-> NoStr,
          hasEnum |-> FALSE, enum |-> <<>>,
          oneOf |-> <<>>, anyOf |-> <<>>, allOf |-> <<>>,
          hasProps |-> FALSE, props |-> <<>>, required |-> ReqNone,
          hasItems |-> FALSE, items |-> <<>>]


\* the string literals of the source
Lit ==
    [any |-> <<"a","n","y">>,
     null |-> <<"n","u","l","l">>,
     number |-> <<"n","u","m","b","e","r">>,
     string |-> <<"s","t","r","i","n","g">>,
     boolean |-> <<"b","o","o","l","e","a","n">>,
     Date |-> <<"D","a","t","e">>,
     date |-> <<"d","a","t","e">>,
     array |-> <<"a","r","r","a","y">>,
     object |-> <<"o","b","j","e","c","t">>,
     enum |-> <<"e","n","u","m">>,
     integer |-> <<"i","n","t","e","g","e","r">>,
     int32 |-> <<"i","n","t","3","2">>,
     int64 |-> <<"i","n","t","6","4">>,
     binary |-> <<"b","i","n","a","r","y">>,
     dateTime |-> <<"d","a","t","e","-","t","i","m","e">>,
     Record |-> <<"R","e","c","o","r","d","<","s","t","r","i","n","g",","," ","a","n","y",">">>,
     Or |-> <<" ","|"," ">>,
     And |-> <<" ","&"," ">>,
     Params |-> <<"P","a","r","a","m","s">>,
     param |-> <<"p","a","r","a","m">>,
     api |-> <<"a","p","i">>]

numberEnum == { Lit.integer, <<"l","o","n","g">>, <<"f","l","o","a","t">>,
                <<"d","o","u","b","l","e">>, Lit.number, <<"i","n","t">>, Lit.int32, Lit.int64 }
dateEnum == { Lit.Date, Lit.date, <<"d","a","t","e","T","i","m","e">>, Lit.dateTime,
              <<"d","a","t","e","t","i","m","e">> }
stringEnum == { Lit.string, <<"e","m","a","i","l">>, <<"p","a","s","s","w","o","r","d">>,
                <<"u","r","l">>, <<"b","y","t","e">>, Lit.binary }

\* getRefName: the resolved last segment of a $ref
getRefName(ref) == resolveTypeName(pop(split(ref, "/")))

\* Array.from(new Set(a)): first occurrences, in order
RECURSIVE fromSet(_)
fromSet(a) ==
    IF Len(a) = 0 THEN <<>>
    ELSE LET init == fromSet(SubSeq(a, 1, Len(a) - 1)) IN
         IF a[Len(a)] \in Range(init) THEN init ELSE Append(init, a[Len(a)])

\* defaultGetType applied to a member of an enum array that is not a string:
\* null gives 'any' (line 113), another primitive is returned as it is (line 116)
getTypeOfLiteral(v) == IF v.k = "null" THEN JSVal("str", Lit.any) ELSE v

\* the member of the union that an enum value maps to (lines 190-192): a
\* string is quoted, v.replace(/"/g, '"') changing nothing
enumMember(v) ==
    IF v.k = "str" THEN JSVal("str", <<"\"">> \o v.v \o <<"\"">>) ELSE getTypeOfLiteral(v)

\* enumMembers without the Set: every member of the array, duplicates included
enumMembersAll(enum) == [i \in DOMAIN enum |-> enumMember(enum[i])]

\* the members of the union of an enum array, before the join
enumMembers(enum) == fromSet([i \in DOMAIN enum |-> enumMember(enum[i])])

\* .join(' | ') of the members: each is converted by String()
enumUnion(enum) ==
    LET m == enumMembers(enum) IN join([i \in DOMAIN m |-> m[i].v], Lit.Or)

isRequiredKey(schemaObject, key, prop) ==
    \/ schemaObject.required.k = "bool" /\ schemaObject.required.b
    \/ schemaObject.required.k = "arr" /\ key \in Range(schemaObject.required.a)
    \/ prop.required.k = "bool" /\ prop.required.b
    \/ prop.required.k = "arr"

RECURSIVE defaultGetType(_, _)
defaultGetType(schemaObject, namespace) ==
    LET type0 == schemaObject.type
        type1 == IF schemaObject.format \in numberEnum THEN Lit.number ELSE type0
        type == IF schemaObject.hasEnum THEN Lit.enum ELSE type1
        sub(list, sep) == join([i \in DOMAIN list |-> defaultGetType(list[i], namespace)], sep)
    IN
    IF schemaObject.ref # NoStr /\ schemaObject.ref # <<>>
    THEN join(SelectSeq(<<namespace, getRefName(schemaObject.ref)>>, LAMBDA s : s # <<>>),
              <<".">>)
    ELSE IF type0 = Lit.null THEN Lit.null
    ELSE IF type \in numberEnum THEN Lit.number
    ELSE IF type \in dateEnum THEN Lit.Date
    ELSE IF type \in stringEnum THEN Lit.string
    ELSE IF type = Lit.boolean THEN Lit.boolean
    ELSE IF type = Lit.array THEN
        LET arrayType == IF schemaObject.hasItems
                         THEN defaultGetType(schemaObject.items[1], namespace)
                         ELSE Lit.any
        IN  IF includes(arrayType, Lit.Or)
            THEN <<"(">> \o arrayType \o <<")","[","]">>
            ELSE arrayType \o <<"[","]">>
    ELSE IF type = Lit.enum THEN enumUnion(schemaObject.enum)
    ELSE IF Len(schemaObject.oneOf) > 0 THEN sub(schemaObject.oneOf, Lit.Or)
    ELSE IF Len(schemaObject.anyOf) > 0 THEN sub(schemaObject.anyOf, Lit.Or)
    ELSE IF Len(schemaObject.allOf) > 0
         THEN <<"(">> \o sub(schemaObject.allOf, Lit.And) \o <<")">>
    ELSE IF schemaObject.type = Lit.object \/ schemaObject.hasProps THEN
        IF Len(schemaObject.props) = 0 THEN Lit.Record
        ELSE <<"{"," ">> \o
             join([i \in DOMAIN schemaObject.props |->
                    LET key == schemaObject.props[i].key
                        prop == schemaObject.props[i].node
                    IN  <<"'">> \o key \o <<"'">>
                        \o (IF isRequiredKey(schemaObject, key, prop) THEN <<>> ELSE <<"?">>)
                        \o <<":"," ">> \o defaultGetType(prop, namespace) \o <<";"," ">>],
                  <<>>)
             \o <<"}">>
    ELSE Lit.any

\* getType (lines 942-951): the result of the hook when it is a string;
\* config.customType is no hook ("none"), a hook that returns undefined
\* ("undef"), or a hook that returns the string v for every schema ("str")
getType(cfg, schemaObject, namespace) ==
    IF cfg.customType.k = "str" THEN cfg.customType.v
    ELSE defaultGetType(schemaObject, namespace)

----------------------------------------------------------------------------
(* The document, the configuration and the grouping pass.                  *)

Methods == <<"get", "put", "post", "delete", "patch">>
MethodStr(m) ==
    CASE m = "get" -> <<"g","e","t">>
      [] m = "put" -> <<"p","u","t">>
      [] m = "post" -> <<"p","o","s","t">>
      [] m = "delete" -> <<"d","e","l","e","t","e">>
      [] m = "patch" -> <<"p","a","t","c","h">>

\* the bundle under extensions['x-antTech-description']
NoExt == [has |-> FALSE, apiName |-> NoStr, antTechVersion |-> NoStr,
          productCode |-> NoStr, antTechApiName |-> NoStr]

\* the schema of the response that getResponseTP selects: absent, or a node
NoResp == [has |-> FALSE, schema |-> Node0]

\* requestBody of an operation: absent, or an object whose content map has
\* one media type, with or without a schema
NoBody == [has |-> FALSE, mediaType |-> NoStr, hasSchema |-> FALSE, schema |-> Node0]

\* An operation object with no field set; the response that getResponseTP
\* selects is the object `resp`, or the reference object {$ref: respRef}
\* when respRef is set
Op0 == [operationId |-> NoStr, hasTags |-> FALSE, tags |-> <<>>, router |-> NoStr,
        hasParameters |-> FALSE, parameters |-> <<>>, ext |-> NoExt, resp |-> NoResp,
        respRef |-> NoStr, body |-> NoBody]

\* A parameter object
Param(name, in, schema) ==
    [name |-> name, in |-> in, required |-> FALSE, hasSchema |-> TRUE, schema |-> schema]

DEFAULT_SCHEMA ==
    [Node0 EXCEPT !.type = Lit.object, !.hasProps = TRUE,
                  !.props = << [key |-> <<"i","d">>, node |-> [Node0 EXCEPT !.type = Lit.number]] >>]

\* pathItem[method]: the operations of a path item are <<method, op>> records
hasMethod(item, m) == \E k \in DOMAIN item : item[k].method = m
opOf(item, m) == item[CHOOSE k \in DOMAIN item : item[k].method = m].op

\* The operations of the document in traversal order: Object.keys(paths), and
\* for each path the methods get, put, post, delete, patch (lines 329-335)
RECURSIVE opsOfItem(_, _, _)
opsOfItem(doc, pi, mi) ==
    IF mi > Len(Methods) THEN <<>>
    ELSE (IF hasMethod(doc.paths[pi].item, Methods[mi])
          THEN << [pi |-> pi, p |-> doc.paths[pi].path, method |-> Methods[mi],
                   op |-> opOf(doc.paths[pi].item, Methods[mi])] >>
          ELSE <<>>) \o opsOfItem(doc, pi, mi + 1)
RECURSIVE opsOfDoc(_, _)
opsOfDoc(doc, pi) ==
    IF pi > Len(doc.paths) THEN <<>>
    ELSE opsOfItem(doc, pi, 1) \o opsOfDoc(doc, pi + 1)

\* a || b on values that are undefined or an array: [def, v]
Defined(v) == [def |-> TRUE, v |-> v]
Undefined == [def |-> FALSE, v |-> <<>>]
OrElse(a, b) == IF a.def THEN a ELSE b

\* apiPath.replace('/', '').split('/')[1]
secondSegment(apiPath) ==
    LET segs == split(replaceStr(apiPath, <<"/">>, <<>>), "/") IN
    IF Len(segs) >= 2 THEN segs[2] ELSE NoStr

Truthy(str) == str # NoStr /\ str # <<>>

defaultGetFileTag(operationObject, apiPath) ==
    IF Truthy(operationObject.router)
    THEN <<operationObject.router>>
    ELSE OrElse(OrElse(IF operationObject.hasTags THEN Defined(operationObject.tags)
                       ELSE Undefined,
                       Defined(<<operationObject.operationId>>)),
                Defined(<<secondSegment(apiPath)>>)).v

\* config.hook.customFileNames: no hook ("none"), a hook that returns
\* undefined ("undef"), or a hook that returns the tags v ("tags")
NoHook == [k |-> "none", v |-> <<>>]

\* lines 328 and 337-340: the tag strings of an operation
tagsOf(cfg, operationObject, p) ==
    LET hooked == IF cfg.customFileNames.k = "tags" THEN Defined(cfg.customFileNames.v)
                  ELSE IF cfg.customFileNames.k = "undef" THEN Undefined
                  ELSE Defined(defaultGetFileTag(operationObject, p))
    IN  IF ~hooked.def THEN defaultGetFileTag(operationObject, p) ELSE hooked.v

\* lines 343-345
tagOf(cfg, tagString) ==
    IF cfg.isCamelCase THEN camelCase(resolveTypeName(tagString))
    ELSE resolveTypeName(tagString)

\* lines 347-354: this.apiData[tag].push({path, method, ...operationObject})
pushApi(data, tag, api) ==
    IF \E k \in DOMAIN data : data[k].tag = tag
    THEN [k \in DOMAIN data |->
            IF data[k].tag = tag THEN [data[k] EXCEPT !.list = Append(@, api)] ELSE data[k]]
    ELSE Append(data, [tag |-> tag, list |-> <<api>>])

RECURSIVE pushTags(_, _, _, _, _)
pushTags(cfg, data, tags, ti, api) ==
    IF ti > Len(tags) THEN data
    ELSE pushTags(cfg, pushApi(data, tagOf(cfg, tags[ti]), api), tags, ti + 1, api)

\* the grouping pass of the constructor (lines 329-357)
RECURSIVE groupOps(_, _, _, _)
groupOps(cfg, ops, i, data) ==
    IF i > Len(ops) THEN data
    ELSE groupOps(cfg, ops, i + 1,
                  pushTags(cfg, data, tagsOf(cfg, ops[i].op, ops[i].p), 1,
                           [path |-> ops[i].p, method |-> ops[i].method,
                            op |-> ops[i].op, pi |-> ops[i].pi]))

----------------------------------------------------------------------------
(* Function names and type names.                                          *)

\* getBasePrefix: the leading segments that all paths share, then "/"
getBasePrefix(paths) ==
    LET segs == [i \in DOMAIN paths |-> split(paths[i], "/")]
        at(key) == {segs[i][key] : i \in {j \in DOMAIN paths : Len(segs[j]) >= key}}
        maxLen == IF paths = <<>> THEN 0
                  ELSE CHOOSE n \in {Len(segs[i]) : i \in DOMAIN paths} :
                          \A i \in DOMAIN paths : Len(segs[i]) <= n
        n == CHOOSE m \in 0..maxLen :
                /\ \A k \in 1..m : Cardinality(at(k)) = 1
                /\ m < maxLen => Cardinality(at(m + 1)) # 1
        res == [k \in 1..n |-> CHOOSE x \in at(k) : TRUE]
    IN  join(res, <<"/">>) \o <<"/">>

\* genDefaultFunctionName (lines 1036-1061); s.includes('-') never holds
\* after resolveTypeName, which strips "-"
segmentName(s) ==
    IF Len(s) >= 3 /\ s[1] = "{" /\ s[Len(s)] = "}"
    THEN <<"B","y">> \o upperFirst(SubSeq(s, 2, Len(s) - 1))
    ELSE upperFirst(s)
genDefaultFunctionName(path, pathBasePrefix) ==
    LET strs == split(replaceStr(path, pathBasePrefix, <<>>), "/")
    IN  join([i \in DOMAIN strs |-> segmentName(resolveTypeName(strs[i]))], <<>>)

\* resolveFunctionName (lines 1121-1127)
resolveFunctionName(functionName, method) ==
    IF ReservedCheck(functionName)
    THEN functionName \o <<"U","s","i","n","g">> \o toUpperCase(MethodStr(method))
    ELSE functionName

docPaths(doc) == [i \in DOMAIN doc.paths |-> doc.paths[i].path]

\* getFuncationName (lines 422-430); config.customFunctionName is "none",
\* "empty", a hook that returns '' for every operation, or "undef", a hook
\* that returns undefined
getFuncationName(cfg, doc, data) ==
    IF cfg.customFunctionName = "empty" THEN <<>>
    ELSE IF cfg.customFunctionName = "undef" THEN NoStr
    ELSE IF Truthy(data.op.operationId)
    THEN resolveFunctionName(stripDot(data.op.operationId), data.method)
    ELSE MethodStr(data.method) \o genDefaultFunctionName(data.path,
                                                          getBasePrefix(docPaths(doc)))

\* lines 434 and 436: customTypeName?.(data) || getFuncationName(data), then
\* `${typeName ?? data.operationId}`; config.customTypeName is no hook
\* ("none"), a hook that returns undefined ("undef"), or a hook that returns
\* the string v for every operation ("str")
typeNameOf(cfg, doc, data) ==
    IF cfg.customTypeName.k = "str" /\ Truthy(cfg.customTypeName.v) THEN cfg.customTypeName.v
    ELSE IF getFuncationName(cfg, doc, data) # NoStr THEN getFuncationName(cfg, doc, data)
    ELSE IF data.op.operationId # NoStr THEN data.op.operationId
    ELSE <<"u","n","d","e","f","i","n","e","d">>

\* getTypeName with the namespace qualifier kept in front of the resolved name
getTypeNameQualified(cfg, doc, data) ==
    (IF Truthy(cfg.namespace) THEN cfg.namespace \o <<".">> ELSE <<>>)
    \o resolveTypeName(typeNameOf(cfg, doc, data) \o Lit.Params)

\* getTypeName (lines 432-437)
getTypeName(cfg, doc, data) ==
    resolveTypeName((IF Truthy(cfg.namespace) THEN cfg.namespace \o <<".">> ELSE <<>>)
                    \o typeNameOf(cfg, doc, data) \o Lit.Params)

----------------------------------------------------------------------------
(* ParameterClassifier.                                                    *)

RECURSIVE runEndWord(_, _)
runEndWord(s, i) == IF i <= Len(s) /\ IsWordCh(s[i]) THEN runEndWord(s, i + 1) ELSE i

\* the names that /\{(\w+)\}/g finds in the path, in order
RECURSIVE braceNames(_, _)
braceNames(path, i) ==
    IF i > Len(path) THEN <<>>
    ELSE IF path[i] = "{"
    THEN LET j == runEndWord(path, i + 1) IN
         IF j > i + 1 /\ j <= Len(path) /\ path[j] = "}"
         THEN <<SubSeq(path, i + 1, j - 1)>> \o braceNames(path, j + 1)
         ELSE braceNames(path, i + 1)
    ELSE braceNames(path, i + 1)

DEFAULT_PATH_PARAM(name) ==
    [name |-> name, in |-> "path", required |-> TRUE, isObject |-> FALSE, type |-> Lit.string]

schemaByName(doc, name) ==
    IF doc.hasSchemas /\ \E k \in DOMAIN doc.schemas : doc.schemas[k].name = name
    THEN Defined(doc.schemas[CHOOSE k \in DOMAIN doc.schemas : doc.schemas[k].name = name].node)
    ELSE Undefined

\* lines 767-780: one parameter of the template
paramTP(cfg, doc, p) ==
    LET schema == IF p.hasSchema THEN p.schema ELSE Node0
        ref == pop(split(IF Truthy(schema.ref) THEN schema.ref ELSE <<>>, "/"))
        deRefObj == schemaByName(doc, ref)
    IN  [name |-> p.name, in |-> p.in, required |-> p.required,
         isObject |-> \/ schema.type = Lit.object
                      \/ (deRefObj.def /\ deRefObj.v.type = Lit.object),
         type |-> getType(cfg, IF p.hasSchema THEN p.schema ELSE DEFAULT_SCHEMA,
                          cfg.namespace)]

RECURSIVE addPathParams(_, _, _)
addPathParams(list, names, i) ==
    IF i > Len(names) THEN list
    ELSE addPathParams(IF \E k \in DOMAIN list : list[k].name = names[i] THEN list
                       ELSE Append(list, DEFAULT_PATH_PARAM(names[i])),
                       names, i + 1)

\* getParamsTP (lines 755-806): a key of the result is present iff its list
\* is not empty
getParamsTP(cfg, doc, parameters, path) ==
    LET from(source) ==
            LET ps == SelectSeq(parameters, LAMBDA p : p.in = source)
            IN  [i \in DOMAIN ps |-> paramTP(cfg, doc, ps[i])]
    IN  [query |-> from("query"),
         path |-> IF Len(path) > 0 THEN addPathParams(from("path"), braceNames(path, 1), 1)
                  ELSE from("path"),
         cookie |-> from("cookie")]

----------------------------------------------------------------------------
(* The synthesis pass of the operations: getServiceTP.                     *)

\* newApi.path.replace(/:([^/]*)|{([^}]*)}/gi, (_, str, str2) => `${str || str2}`)
RECURSIVE runEndNot(_, _, _)
runEndNot(s, i, c) == IF i <= Len(s) /\ s[i] # c THEN runEndNot(s, i + 1, c) ELSE i
Placeholder(name) == <<"$","{">> \o name \o <<"}">>
RECURSIVE formatPath(_, _)
formatPath(path, i) ==
    IF i > Len(path) THEN <<>>
    ELSE IF path[i] = ":"
    THEN LET j == runEndNot(path, i + 1, "/")
             str == SubSeq(path, i + 1, j - 1)
         IN  Placeholder(IF str = <<>> THEN <<"u","n","d","e","f","i","n","e","d">> ELSE str)
             \o formatPath(path, j)
    ELSE IF path[i] = "{" /\ runEndNot(path, i + 1, "}") <= Len(path)
    THEN LET j == runEndNot(path, i + 1, "}") IN
         Placeholder(SubSeq(path, i + 1, j - 1)) \o formatPath(path, j + 1)
    ELSE <<path[i]>> \o formatPath(path, i + 1)


\* lines 496-499: alias `param${index}`
escapePathParams(pathParams) ==
    [i \in DOMAIN pathParams |->
        [name |-> pathParams[i].name, in |-> pathParams[i].in,
         required |-> pathParams[i].required, isObject |-> pathParams[i].isObject,
         type |-> pathParams[i].type, alias |-> Lit.param \o NumStr(i - 1)]]

\* lines 500-504: formattedPath.replace(`${name}`, `${alias}`) for each
\* path parameter in turn; a string pattern replaces its first occurrence
RECURSIVE aliasPath(_, _, _)
aliasPath(formattedPath, escapedPathParams, i) ==
    IF i > Len(escapedPathParams) THEN formattedPath
    ELSE aliasPath(replaceStr(formattedPath, Placeholder(escapedPathParams[i].name),
                              Placeholder(escapedPathParams[i].alias)),
                   escapedPathParams, i + 1)

\* s.trim()
RECURSIVE trim(_)
trim(s) == IF Len(s) > 0 /\ s[1] = " " THEN trim(Tail(s))
           ELSE IF Len(s) > 0 /\ s[Len(s)] = " " THEN trim(SubSeq(s, 1, Len(s) - 1))
           ELSE s

\* config.apiPrefix: absent ("none"), a string ("str") or a callback that
\* returns v ("fn")
NoPrefix == [k |-> "none", v |-> <<>>]

\* the backquote character, which a string of the model cannot hold
BackQuote == "bq"

\* getPrefixPath that decides by the kind of apiPrefix: a string is prepended
\* as it is unless the path starts with it, the result of a callback is
\* interpolated
getPrefixPathByKind(cfg, formattedPath) ==
    IF cfg.apiPrefix.k = "none" \/ trim(cfg.apiPrefix.v) = <<>>
    THEN formattedPath
    ELSE IF cfg.apiPrefix.k = "str"
    THEN IF startsWith(formattedPath, trim(cfg.apiPrefix.v)) THEN formattedPath
         ELSE trim(cfg.apiPrefix.v) \o formattedPath
    ELSE Placeholder(trim(cfg.apiPrefix.v)) \o formattedPath

\* getPrefixPath (lines 519-550)
getPrefixPath(cfg, formattedPath) ==
    IF cfg.apiPrefix.k = "none" \/ (cfg.apiPrefix.k = "str" /\ cfg.apiPrefix.v = <<>>)
    THEN formattedPath
    ELSE LET prefix == trim(cfg.apiPrefix.v) IN
         IF prefix = <<>> THEN formattedPath
         ELSE IF prefix[1] \in {"'", "\"", BackQuote}
         THEN LET finalPrefix == SubSeq(prefix, 2, Len(prefix) - 1) IN
              IF startsWith(formattedPath, finalPrefix)
                 \/ startsWith(formattedPath, <<"/">> \o finalPrefix)
              THEN formattedPath
              ELSE finalPrefix \o formattedPath
         ELSE Placeholder(prefix) \o formattedPath

\* String.prototype.localeCompare for the characters of the model: the root
\* collation puts punctuation before symbols, then "$", digits and letters,
\* and a lower-case letter before its upper-case form when all else is equal
Collation == <<" ", "_", "-", ",", ";", ":", "!", "?", ".", "'", "\"", "(", ")", "[", "]",
               "{", "}", "@", "*", "/", "\\", "&", "#", "%", "^", "+", "<", "=", ">",
               "|", "~", "$">> \o DigitCh \o LowerCh
primary(c) == CHOOSE k \in DOMAIN Collation : Collation[k] = toLowerCaseCh(c)
RECURSIVE compareBy(_, _, _)
compareBy(a, b, level) ==
    IF Len(a) = 0 /\ Len(b) = 0 THEN 0
    ELSE IF Len(a) = 0 THEN -1
    ELSE IF Len(b) = 0 THEN 1
    ELSE LET x == IF level = 1 THEN primary(a[1]) ELSE IF IsUpper(a[1]) THEN 1 ELSE 0
             y == IF level = 1 THEN primary(b[1]) ELSE IF IsUpper(b[1]) THEN 1 ELSE 0
         IN  IF x < y THEN -1 ELSE IF x > y THEN 1 ELSE compareBy(Tail(a), Tail(b), level)
localeCompare(a, b) ==
    IF compareBy(a, b, 1) # 0 THEN compareBy(a, b, 1) ELSE compareBy(a, b, 3)

\* list.sort((a, b) => a.path.localeCompare(b.path)): Array.prototype.sort is stable
RECURSIVE insertByPath(_, _)
insertByPath(sorted, d) ==
    IF Len(sorted) = 0 THEN <<d>>
    ELSE IF localeCompare(sorted[Len(sorted)].path, d.path) <= 0 THEN Append(sorted, d)
    ELSE Append(insertByPath(SubSeq(sorted, 1, Len(sorted) - 1), d), sorted[Len(sorted)])
\* sortByPath without the sort: the descriptors in encounter order
sortByPathEncounter(list) == list

RECURSIVE sortByPath(_)
sortByPath(list) ==
    IF Len(list) = 0 THEN <<>>
    ELSE insertByPath(sortByPath(SubSeq(list, 1, Len(list) - 1)), list[Len(list)])

\* the operation object of the document behind an entry of apiData: the
\* entry is a shallow copy, so its `responses` is the document's own object
docOp(doc, api) == opOf(doc.paths[api.pi].item, api.method)

\* lines 743-748: every property of the schema gets
\* required = schema.required?.includes(fieldName) ?? false
markRequired(schema) ==
    [schema EXCEPT !.props =
        [i \in DOMAIN schema.props |->
            [schema.props[i] EXCEPT !.node.required =
                ReqBool(schema.required.k = "arr"
                        /\ schema.props[i].key \in Range(schema.required.a))]]]

\* components.responses: a named response is a response object `resp` or,
\* when `ref` is set, the reference object {$ref: ref}
responseByName(doc, name) ==
    IF \E k \in DOMAIN doc.responses : doc.responses[k].name = name
    THEN Defined(doc.responses[CHOOSE k \in DOMAIN doc.responses :
                                  doc.responses[k].name = name])
    ELSE Undefined

\* resolveRefObject (lines 1090-1110) for a reference #/components/responses/X:
\* the named response that the chain of references ends in; undefined when
\* a name is missing or the chain does not end
RECURSIVE respTarget(_, _, _)
respTarget(doc, ref, fuel) ==
    IF fuel = 0 \/ ~responseByName(doc, pop(split(ref, "/"))).def THEN Undefined
    ELSE IF Truthy(responseByName(doc, pop(split(ref, "/"))).v.ref)
    THEN respTarget(doc, responseByName(doc, pop(split(ref, "/"))).v.ref, fuel - 1)
    ELSE responseByName(doc, pop(split(ref, "/")))

\* line 707: this.resolveRefObject(responses['200']) throws
respThrows(doc, op) ==
    Truthy(op.respRef) /\ ~respTarget(doc, op.respRef, Len(doc.responses)).def

\* line 707: the response object after resolveRefObject
respOf(doc, op) ==
    IF ~Truthy(op.respRef) THEN op.resp
    ELSE IF respThrows(doc, op) THEN NoResp
    ELSE respTarget(doc, op.respRef, Len(doc.responses)).v.resp

\* the document with the response schema of an operation replaced: the
\* schema is the one of the operation or of the named response it references
withRespSchema(doc, api, node) ==
    IF Truthy(opOf(doc.paths[api.pi].item, api.method).respRef)
    THEN [doc EXCEPT !.responses =
            [k \in DOMAIN @ |->
                IF @[k].name = respTarget(doc, opOf(doc.paths[api.pi].item, api.method).respRef,
                                          Len(doc.responses)).v.name
                THEN [@[k] EXCEPT !.resp.schema = node] ELSE @[k]]]
    ELSE [doc EXCEPT !.paths[api.pi].item =
            [k \in DOMAIN @ |-> IF @[k].method = api.method
                                THEN [@[k] EXCEPT !.op.resp.schema = node] ELSE @[k]]]

\* the document with property `field` of the named schema replaced
withFieldSchema(doc, name, field, node) ==
    [doc EXCEPT !.schemas =
        [k \in DOMAIN @ |->
            IF @[k].name = name
            THEN [@[k] EXCEPT !.node.props =
                    [j \in DOMAIN @ |-> IF @[j].key = field THEN [@[j] EXCEPT !.node = node]
                                        ELSE @[j]]]
            ELSE @[k]]]

propByKey(schema, key) ==
    IF \E j \in DOMAIN schema.props : schema.props[j].key = key
    THEN Defined(schema.props[CHOOSE j \in DOMAIN schema.props : schema.props[j].key = key].node)
    ELSE Undefined

defaultResponse == [mediaType |-> "*/*", type |-> Lit.any]

\* lines 739-752: the response of a schema; its properties are marked in the
\* document, under the named schema when a data field was selected
schemaResponse(cfg, doc, api, refName, fields, schema) ==
    IF schema.hasProps /\ Len(schema.props) > 0 /\ schema.required.k = "bool"
    THEN [threw |-> TRUE, doc |-> doc, response |-> defaultResponse]
    ELSE [threw |-> FALSE,
          doc |-> IF ~schema.hasProps THEN doc
                  ELSE IF Len(fields) > 0
                  THEN withFieldSchema(doc, refName, fields[1], markRequired(schema))
                  ELSE withRespSchema(doc, api, markRequired(schema)),
          response |-> [mediaType |-> "application/json",
                        type |-> getType(cfg,
                                         IF schema.hasProps THEN markRequired(schema)
                                         ELSE schema,
                                         cfg.namespace)]]

\* lines 721-738: the data fields of the configuration that the referenced
\* object schema has
dataFieldsOf(cfg, resp, childrenSchema) ==
    IF Truthy(resp.schema.ref) /\ childrenSchema.def /\ childrenSchema.v.type = Lit.object
       /\ childrenSchema.v.hasProps /\ cfg.dataFields.def
    THEN SelectSeq(cfg.dataFields.v, LAMBDA f : propByKey(childrenSchema.v, f).def)
    ELSE <<>>

\* refResponse with the referenced schema taken in place of the reference
refResponseInlined(cfg, doc, api, resp, refName, childrenSchema, fields) ==
    schemaResponse(cfg, doc, api, refName, fields,
                   IF Len(fields) > 0 THEN propByKey(childrenSchema.v, fields[1]).v
                   ELSE IF Truthy(resp.schema.ref) /\ childrenSchema.def THEN childrenSchema.v
                   ELSE resp.schema)

\* lines 725-741: the schema that the response is typed by
refResponse(cfg, doc, api, resp, refName, childrenSchema, fields) ==
    schemaResponse(cfg, doc, api, refName, fields,
                   IF Len(fields) > 0 THEN propByKey(childrenSchema.v, fields[1]).v
                   ELSE resp.schema)

respResponse(cfg, doc, api, resp, refName, childrenSchema) ==
    IF ~resp.has THEN [threw |-> FALSE, doc |-> doc, response |-> defaultResponse]
    ELSE IF Truthy(resp.schema.ref) /\ ~doc.hasSchemas
    THEN [threw |-> TRUE, doc |-> doc, response |-> defaultResponse]
    ELSE refResponse(cfg, doc, api, resp, refName, childrenSchema,
                     dataFieldsOf(cfg, resp, childrenSchema))

\* getResponseTP (lines 704-753) for a response whose content has a JSON
\* schema (resp.has) or no content at all; the result carries the document,
\* which the method changes in place, and whether it threw
getResponseTP(cfg, doc, api) ==
    IF respThrows(doc, docOp(doc, api))
    THEN [threw |-> TRUE, doc |-> doc, response |-> defaultResponse]
    ELSE respResponse(cfg, doc, api, respOf(doc, docOp(doc, api)),
                      pop(split(respOf(doc, docOp(doc, api)).schema.ref, "/")),
                      schemaByName(doc, pop(split(respOf(doc, docOp(doc, api)).schema.ref,
                                                  "/"))))

\* tmpFunctionRD[functionName]: 0 when the key is absent
rdCount(rd, name) ==
    IF \E k \in DOMAIN rd : rd[k].name = name
    THEN rd[CHOOSE k \in DOMAIN rd : rd[k].name = name].n ELSE 0
rdSet(rd, name, n) ==
    IF \E k \in DOMAIN rd : rd[k].name = name
    THEN [k \in DOMAIN rd |-> IF rd[k].name = name THEN [rd[k] EXCEPT !.n = n] ELSE rd[k]]
    ELSE Append(rd, [name |-> name, n |-> n])

\* dedupName with the suffix taken before the counter is incremented
dedupNameStale(rd, functionName) ==
    IF Truthy(functionName) /\ rdCount(rd, functionName) > 0
    THEN functionName \o <<"_">> \o NumStr(rdCount(rd, functionName))
    ELSE functionName

\* lines 468-474: the function name after the collision counter of the tag
dedupName(rd, functionName) ==
    IF Truthy(functionName) /\ rdCount(rd, functionName) > 0
    THEN functionName \o <<"_">> \o NumStr(rdCount(rd, functionName) + 1)
    ELSE functionName
dedupRD(rd, functionName) ==
    IF Truthy(functionName) /\ rdCount(rd, functionName) > 0
    THEN rdSet(rd, functionName, rdCount(rd, functionName) + 1)
    ELSE IF Truthy(functionName) THEN rdSet(rd, functionName, 1)
    ELSE rd

\* line 554
finalFunctionName(cfg, functionName) ==
    IF cfg.isCamelCase THEN camelCase(functionName) ELSE functionName

\* lines 476-485: the path after the placeholder and vendor rewrites
vendorPath(api) ==
    IF api.op.ext.has /\ Truthy(api.op.ext.antTechApiName)
    THEN api.op.ext.antTechApiName
    ELSE formatPath(api.path, 1)

\* lines 486-491
mappingOf(api) ==
    [antTechApi |-> vendorPath(api), popAction |-> api.op.ext.apiName,
     popProduct |-> api.op.ext.productCode, antTechVersion |-> api.op.ext.antTechVersion]

----------------------------------------------------------------------------
(* Resolution of schema nodes: resolveObject and what it calls.            *)

\* a field of a result that may be undefined, a string or a schema node
TUndef == [k |-> "undef", v |-> <<>>]
TStr(s) == [k |-> "str", v |-> s]
TNode(n) == [k |-> "node", v |-> n]

\* the result of resolveObject: `type`, `props` (a list of property groups)
\* and `isEnum` ("undef", "true" or "false"), or an exception
Resolved(type, props, isEnum) ==
    [threw |-> FALSE, type |-> type, props |-> props, isEnum |-> isEnum]
ResolveThrew == [threw |-> TRUE, type |-> TUndef, props |-> Undefined, isEnum |-> "undef"]

\* propName.replace(/[\[|\]]/g, '')
stripBrackets(propName) == SelectSeq(propName, LAMBDA c : c \notin {"[", "|", "]"})

\* getProps (lines 922-940): name, type and required flag of each property
getProps(cfg, schemaObject) ==
    [i \in DOMAIN schemaObject.props |->
        [name |-> stripBrackets(schemaObject.props[i].key),
         type |-> getType(cfg, schemaObject.props[i].node, <<>>),
         required |-> /\ schemaObject.required.k = "arr"
                      /\ stripBrackets(schemaObject.props[i].key)
                            \in Range(schemaObject.required.a)]]

\* requiredPropKeys.some is not a function when `required` is the boolean true
getPropsThrows(schemaObject) ==
    /\ Len(schemaObject.props) > 0
    /\ schemaObject.required.k = "bool" /\ schemaObject.required.b

\* resolveRefObject (lines 1090-1110) for a reference #/components/schemas/X:
\* the `type` of the result is the schema that the chain of references ends in
RECURSIVE refTarget(_, _, _)
refTarget(doc, ref, fuel) ==
    IF fuel = 0 \/ ~schemaByName(doc, pop(split(ref, "/"))).def THEN Undefined
    ELSE IF Truthy(schemaByName(doc, pop(split(ref, "/"))).v.ref)
    THEN refTarget(doc, schemaByName(doc, pop(split(ref, "/"))).v.ref, fuel - 1)
    ELSE schemaByName(doc, pop(split(ref, "/")))
\* resolveRefObject with a `type` that is the node the reference names,
\* whatever that node is
resolveRefObjectOneHop(doc, refObject) ==
    IF split(refObject.ref, "/")[1] # <<"#">>
    THEN Resolved(IF refObject.type = NoStr THEN TUndef ELSE TStr(refObject.type),
                  Undefined, "undef")
    ELSE IF ~schemaByName(doc, pop(split(refObject.ref, "/"))).def THEN ResolveThrew
    ELSE Resolved(TNode(schemaByName(doc, pop(split(refObject.ref, "/"))).v),
                  Undefined, "undef")

resolveRefObject(doc, refObject) ==
    IF split(refObject.ref, "/")[1] # <<"#">>
    THEN Resolved(IF refObject.type = NoStr THEN TUndef ELSE TStr(refObject.type),
                  Undefined, "undef")
    ELSE IF ~refTarget(doc, refObject.ref, Len(doc.schemas)).def THEN ResolveThrew
    ELSE Resolved(TNode(refTarget(doc, refObject.ref, Len(doc.schemas)).v), Undefined, "undef")

\* `${v}="${v}"` of the enum style
enumEntry(v) == v.v \o <<"=","\"">> \o v.v \o <<"\"">>

\* lines 1004-1010: the union of the string-literal style; a value that is
\* not a string goes through this.getType, so through the customType hook
hookedMembers(cfg, enum) ==
    [i \in DOMAIN enum |-> IF enum[i].k = "str" THEN enumMember(enum[i])
                           ELSE JSVal("str", cfg.customType.v)]
literalUnion(cfg, enum) ==
    IF cfg.customType.k = "str"
    THEN join([i \in DOMAIN fromSet(hookedMembers(cfg, enum)) |->
                 fromSet(hookedMembers(cfg, enum))[i].v], Lit.Or)
    ELSE enumUnion(enum)

\* resolveEnumObject (lines 995-1020)
resolveEnumObject(cfg, schemaObject) ==
    Resolved(TStr(IF cfg.enumStyle = "enum"
                  THEN <<"{">> \o join([i \in DOMAIN schemaObject.enum |->
                                          enumEntry(schemaObject.enum[i])], <<",">>)
                       \o <<"}">>
                  ELSE literalUnion(cfg, schemaObject.enum)),
             Undefined,
             IF cfg.enumStyle = "enum" THEN "true" ELSE "false")

\* the group of an allOf member (line 1023-1025): a reference gives one
\* element, the member with `type` set to the last segment of its type
allOfGroup(cfg, item) ==
    IF Truthy(item.ref)
    THEN << [ref |-> item.ref, type |-> pop(split(getType(cfg, item, <<>>), "/"))] >>
    ELSE getProps(cfg, item)

\* resolveAllOfObject with the groups of the members and of the node merged
\* into one group
resolveAllOfObjectMerged(cfg, schemaObject) ==
    Resolved(TUndef,
             Defined(<< join([i \in DOMAIN schemaObject.allOf |->
                                allOfGroup(cfg, schemaObject.allOf[i])], <<>>)
                        \o getProps(cfg, schemaObject) >>),
             "undef")

\* resolveAllOfObject (lines 1022-1033)
resolveAllOfObject(cfg, schemaObject) ==
    IF \/ \E i \in DOMAIN schemaObject.allOf :
             ~Truthy(schemaObject.allOf[i].ref) /\ getPropsThrows(schemaObject.allOf[i])
       \/ getPropsThrows(schemaObject)
    THEN ResolveThrew
    ELSE Resolved(TUndef,
                  Defined([i \in DOMAIN schemaObject.allOf |->
                              allOfGroup(cfg, schemaObject.allOf[i])]
                          \o (IF schemaObject.hasProps THEN <<getProps(cfg, schemaObject)>>
                              ELSE <<>>)),
                  "undef")

\* resolveProperties (lines 989-993)
resolveProperties(cfg, schemaObject) ==
    IF getPropsThrows(schemaObject) THEN ResolveThrew
    ELSE Resolved(TUndef, Defined(<<getProps(cfg, schemaObject)>>), "undef")

\* resolveArray (lines 978-987): the string 'any[]' has no `type`
resolveArray(schemaObject) ==
    IF Truthy(schemaObject.items[1].ref)
    THEN Resolved(TStr(pop(split(schemaObject.items[1].ref, "/")) \o <<"[","]">>),
                  Undefined, "undef")
    ELSE Resolved(TUndef, Undefined, "undef")

\* resolveObject that resolves the members of an allOf that are references:
\* a member that references the node itself never comes to an end
resolveObjectFollow(cfg, doc, schemaObject) ==
    IF Truthy(schemaObject.ref) THEN resolveRefObject(doc, schemaObject)
    ELSE IF schemaObject.hasEnum THEN resolveEnumObject(cfg, schemaObject)
    ELSE IF Len(schemaObject.allOf) > 0
    THEN IF \E i \in DOMAIN schemaObject.allOf :
               /\ Truthy(schemaObject.allOf[i].ref)
               /\ schemaByName(doc, pop(split(schemaObject.allOf[i].ref, "/")))
                     = Defined(schemaObject)
         THEN ResolveThrew
         ELSE resolveAllOfObject(cfg, schemaObject)
    ELSE IF schemaObject.hasProps THEN resolveProperties(cfg, schemaObject)
    ELSE IF schemaObject.hasItems /\ schemaObject.type = Lit.array
    THEN resolveArray(schemaObject)
    ELSE Resolved(IF schemaObject.type = NoStr THEN TUndef ELSE TStr(schemaObject.type),
                  Undefined, "undef")

\* resolveObject (lines 953-976)
resolveObject(cfg, doc, schemaObject) ==
    IF Truthy(schemaObject.ref) THEN resolveRefObject(doc, schemaObject)
    ELSE IF schemaObject.hasEnum THEN resolveEnumObject(cfg, schemaObject)
    ELSE IF Len(schemaObject.allOf) > 0 THEN resolveAllOfObject(cfg, schemaObject)
    ELSE IF schemaObject.hasProps THEN resolveProperties(cfg, schemaObject)
    ELSE IF schemaObject.hasItems /\ schemaObject.type = Lit.array
    THEN resolveArray(schemaObject)
    ELSE Resolved(IF schemaObject.type = NoStr THEN TUndef ELSE TStr(schemaObject.type),
                  Undefined, "undef")

----------------------------------------------------------------------------
(* Request bodies: getBodyTP, getFileTP and resolveFileTP.                 *)

FormData == <<"m","u","l","t","i","p","a","r","t","/","f","o","r","m","-","d","a","t","a">>
fileFormats == { Lit.binary, <<"b","a","s","e","6","4">> }
arrayTypes == { Lit.string \o <<"[","]">>, Lit.array }

\* lines 638-645: the property of a body schema is a file field
isBodyFile(node) ==
    \/ node.format \in fileFormats
    \/ node.type \in arrayTypes /\ node.items[1].format \in fileFormats

\* lines 638-652: what makes the map over the properties throw: `.items.format`
\* of an array-typed property without items, `schema.required?.includes` of a
\* boolean `required` for a property that is kept
bodyPropThrows(schema, node) ==
    /\ node.format \notin fileFormats
    /\ \/ node.type \in arrayTypes /\ ~node.hasItems
       \/ ~isBodyFile(node) /\ schema.required.k = "bool"

\* getBodyTP (lines 616-672): null without a content object, else the media
\* type with the properties that are no file fields or with the type
getBodyTP(cfg, body) ==
    IF ~body.has
    THEN [threw |-> FALSE, null |-> TRUE, mediaType |-> NoStr, propertiesList |-> <<>>,
          type |-> NoStr]
    ELSE IF /\ body.hasSchema /\ body.schema.type = Lit.object /\ body.schema.hasProps
            /\ \E i \in DOMAIN body.schema.props :
                  bodyPropThrows(body.schema, body.schema.props[i].node)
    THEN [threw |-> TRUE, null |-> FALSE, mediaType |-> NoStr, propertiesList |-> <<>>,
          type |-> NoStr]
    ELSE [threw |-> FALSE, null |-> FALSE,
          mediaType |-> IF body.mediaType = <<"*","/","*">> THEN <<>> ELSE body.mediaType,
          propertiesList |->
              IF body.hasSchema /\ body.schema.type = Lit.object /\ body.schema.hasProps
              THEN [i \in DOMAIN SelectSeq(body.schema.props,
                                           LAMBDA q : ~isBodyFile(q.node)) |->
                      [key |-> SelectSeq(body.schema.props,
                                         LAMBDA q : ~isBodyFile(q.node))[i].key,
                       type |-> getType(cfg,
                                   SelectSeq(body.schema.props,
                                             LAMBDA q : ~isBodyFile(q.node))[i].node,
                                   cfg.namespace)]]
              ELSE <<>>,
          type |-> IF body.hasSchema /\ body.schema.type = Lit.object /\ body.schema.hasProps
                   THEN body.schema.type
                   ELSE getType(cfg, IF body.hasSchema THEN body.schema ELSE DEFAULT_SCHEMA,
                                cfg.namespace)]

\* the members of one group of resolved.props as getProps and
\* resolveAllOfObject build them: the fields of the schema with `name` and
\* with `type` replaced by the synthesized type
groupOf(cfg, schemaObject) ==
    [i \in DOMAIN schemaObject.props |->
        [name |-> stripBrackets(schemaObject.props[i].key),
         type |-> getType(cfg, schemaObject.props[i].node, <<>>),
         node |-> schemaObject.props[i].node]]
memberGroup(cfg, item) ==
    IF Truthy(item.ref)
    THEN << [name |-> NoStr, type |-> pop(split(getType(cfg, item, <<>>), "/")),
             node |-> item] >>
    ELSE groupOf(cfg, item)

\* the groups of resolved.props for a node that resolveObject sends to
\* resolveAllOfObject or resolveProperties
propGroups(cfg, schemaObject) ==
    IF Len(schemaObject.allOf) > 0
    THEN [i \in DOMAIN schemaObject.allOf |-> memberGroup(cfg, schemaObject.allOf[i])]
         \o (IF schemaObject.hasProps THEN <<groupOf(cfg, schemaObject)>> ELSE <<>>)
    ELSE <<groupOf(cfg, schemaObject)>>

\* lines 688-692: the filter of resolveFileTP
isFile(p) ==
    \/ p.node.format \in fileFormats
    \/ p.type \in arrayTypes /\ p.node.items[1].format \in fileFormats

\* `p.items.format` of a member without items
isFileThrows(p) ==
    p.node.format \notin fileFormats /\ p.type \in arrayTypes /\ ~p.node.hasItems

\* lines 695-698
fileFields(group) ==
    [i \in DOMAIN SelectSeq(group, isFile) |->
        [title |-> SelectSeq(group, isFile)[i].name,
         multiple |-> SelectSeq(group, isFile)[i].type \in arrayTypes]]

FileThrew == [threw |-> TRUE, ret |-> <<>>]

\* resolveFileTP (lines 681-702), given resolved = this.resolveObject(obj):
\* the file fields of resolved.props[0], then those of resolved.type when
\* it is set; a `type` that is a string has no props and no type
RECURSIVE resolveFileTP(_, _, _, _)
resolveFileTP(cfg, doc, obj, resolved) ==
    IF resolved.threw THEN FileThrew
    ELSE IF resolved.props.def /\ Len(resolved.props.v) > 0
    THEN IF \E p \in Range(propGroups(cfg, obj)[1]) : isFileThrows(p)
         THEN FileThrew
         ELSE [threw |-> FALSE, ret |-> fileFields(propGroups(cfg, obj)[1])]
    ELSE IF resolved.type.k = "node"
    THEN resolveFileTP(cfg, doc, resolved.type.v, resolveObject(cfg, doc, resolved.type.v))
    ELSE [threw |-> FALSE, ret |-> <<>>]

\* getFileTP (lines 673-680): the file fields of a multipart body; null is
\* the empty list
getFileTP(cfg, doc, body) ==
    IF body.has /\ body.mediaType = FormData
    THEN resolveFileTP(cfg, doc, IF body.hasSchema THEN body.schema ELSE Node0,
                       resolveObject(cfg, doc, IF body.hasSchema THEN body.schema ELSE Node0))
    ELSE [threw |-> FALSE, ret |-> <<>>]

----------------------------------------------------------------------------
(* The descriptors of the operations: getServiceTP.                        *)

\* lines 552-584: the descriptor of one operation, given its names, its
\* classified parameters and its response
descriptorOf(cfg, api, functionName, typeName, params, response, body, file) ==
    LET escapedPathParams == escapePathParams(params.path)
        formattedPath == aliasPath(vendorPath(api), escapedPathParams, 1)
    IN  [api |-> api,
         functionName |-> finalFunctionName(cfg, functionName),
         typeName |-> typeName,
         path |-> getPrefixPath(cfg, formattedPath),
         hasPathVariables |-> includes(formattedPath, <<"{">>),
         hasApiPrefix |-> cfg.apiPrefix.k = "fn"
                          \/ (cfg.apiPrefix.k = "str" /\ cfg.apiPrefix.v # <<>>),
         method |-> api.method,
         params |-> [query |-> [i \in DOMAIN params.query |->
                                   [name |-> params.query[i].name,
                                    in |-> params.query[i].in,
                                    required |-> params.query[i].required,
                                    isObject |-> params.query[i].isObject,
                                    type |-> params.query[i].type,
                                    isComplexType |-> params.query[i].isObject]],
                     path |-> escapedPathParams,
                     cookie |-> params.cookie],
         hasParams |-> Len(params.query) + Len(params.path) + Len(params.cookie) > 0,
         body |-> body,
         file |-> file,
         hasFormData |-> (~body.null /\ includes(body.mediaType, <<"f","o","r","m","-","d","a","t","a">>))
                         \/ Len(file) > 0,
         response |-> response]

\* lines 450-584: the descriptor of one operation of a tag, given the
\* counter of the tag and the result r of getResponseTP for it; getFileTP
\* runs on the document that getResponseTP leaves
descriptor(cfg, doc, api, rd, r) ==
    descriptorOf(cfg, api, dedupName(rd, getFuncationName(cfg, doc, api)),
                 getTypeName(cfg, doc, api),
                 getParamsTP(cfg, doc, api.op.parameters, api.path), r.response,
                 getBodyTP(cfg, api.op.body), getFileTP(cfg, r.doc, api.op.body).ret)

\* synthApi with a catch block that logs and goes on to the next operation
synthApiSwallow(cfg, api, acc, r) ==
    IF getBodyTP(cfg, api.op.body).threw \/ r.threw THEN acc
    ELSE IF getFileTP(cfg, r.doc, api.op.body).threw THEN [acc EXCEPT !.doc = r.doc]
    ELSE [threw |-> FALSE,
          doc |-> r.doc,
          maps |-> IF api.op.ext.has THEN Append(acc.maps, mappingOf(api)) ELSE acc.maps,
          rd |-> dedupRD(acc.rd, getFuncationName(cfg, acc.doc, api)),
          list |-> Append(acc.list, descriptor(cfg, acc.doc, api, acc.rd, r))]

\* lines 450-590: one operation of a tag; acc carries the document,
\* this.mappings, the counter of the tag and the list so far, r is the
\* result of getResponseTP for the operation
synthApi(cfg, api, acc, r) ==
    IF getBodyTP(cfg, api.op.body).threw \/ r.threw THEN [acc EXCEPT !.threw = TRUE]
    ELSE IF getFileTP(cfg, r.doc, api.op.body).threw
    THEN [acc EXCEPT !.threw = TRUE, !.doc = r.doc]
    ELSE [threw |-> FALSE,
          doc |-> r.doc,
          maps |-> IF api.op.ext.has THEN Append(acc.maps, mappingOf(api)) ELSE acc.maps,
          rd |-> dedupRD(acc.rd, getFuncationName(cfg, acc.doc, api)),
          list |-> Append(acc.list, descriptor(cfg, acc.doc, api, acc.rd, r))]

\* lines 444-590: the operations of one tag in encounter order
RECURSIVE synthApis(_, _, _, _)
synthApis(cfg, apis, i, acc) ==
    IF i > Len(apis) \/ acc.threw THEN acc
    ELSE synthApis(cfg, apis, i + 1,
                   synthApi(cfg, apis[i], acc, getResponseTP(cfg, acc.doc, apis[i])))

\* replaceDot (lines 1117-1119)
replaceDot(str) ==
    upperAfterSep([i \in DOMAIN str |-> IF str[i] = "." THEN "_" ELSE str[i]], NameSeps)


\* lines 592-611: the group of one tag, given its file name and the result r
\* of synthesizing its operations
synthTag(acc, fileName, className, r) ==
    IF r.threw THEN [acc EXCEPT !.threw = TRUE, !.doc = r.doc, !.maps = r.maps]
    ELSE [threw |-> FALSE, doc |-> r.doc, maps |-> r.maps,
          cnl |-> IF Len(r.list) > 0
                  THEN Append(acc.cnl, [fileName |-> className, controllerName |-> className])
                  ELSE acc.cnl,
          out |-> Append(acc.out,
                     [className |-> className,
                      instanceName |-> <<toLowerCaseCh(fileName[1])>> \o Tail(fileName),
                      list |-> sortByPath(r.list)])]

\* lines 594-597: replaceDot(tag) || `api${index}`
fileNameOf(name, index) == IF name # <<>> THEN name ELSE Lit.api \o NumStr(index)

\* lines 596-599: config.customClassName is no hook ("none"), a hook that
\* returns undefined ("undef"), or a hook that returns the string v for
\* every tag ("str")
classNameOf(cfg, fileName) ==
    IF cfg.customClassName.k = "undef" THEN NoStr
    ELSE IF cfg.customClassName.k = "str" THEN cfg.customClassName.v
    ELSE fileName

\* lines 440-612: the tags in order; index is the 0-based position of the tag
RECURSIVE synthTags(_, _, _, _)
synthTags(cfg, data, index, acc) ==
    IF index >= Len(data) \/ acc.threw THEN acc
    ELSE synthTags(cfg, data, index + 1,
            synthTag(acc, fileNameOf(replaceDot(data[index + 1].tag), index),
                     classNameOf(cfg, fileNameOf(replaceDot(data[index + 1].tag), index)),
                     synthApis(cfg,
                               SelectSeq(data[index + 1].list,
                                         LAMBDA api : ~includes(api.path, <<"$","{">>)),
                               1,
                               [threw |-> FALSE, doc |-> acc.doc, maps |-> acc.maps,
                                rd |-> <<>>, list |-> <<>>])))

\* getServiceTP (lines 439-614): the groups with a non-empty list, and what
\* the call leaves in the document, this.mappings and this.classNameList
getServiceTP(cfg, doc, data, maps, cnl) ==
    [synthTags(cfg, data, 0,
               [threw |-> FALSE, doc |-> doc, maps |-> maps, cnl |-> cnl, out |-> <<>>])
        EXCEPT !.out = SelectSeq(@, LAMBDA ele : Len(ele.list) > 0)]

----------------------------------------------------------------------------
(* The synthesis pass of the named types: getInterfaceTP.                  *)

\* lines 819-834: the named type of a schema of components.schemas, given
\* the result of resolveObject; `true` is the value of
\* defines[typeName].type === 'object' || result.type
definedType(typeName, schemaObject, result) ==
    [typeName |-> resolveTypeName(typeName),
     type |-> IF result.type.k = "undef" \/ result.type = TStr(<<>>) THEN TStr(Lit.Record)
              ELSE IF schemaObject.type = Lit.object THEN [k |-> "bool", v |-> TRUE]
              ELSE result.type,
     props |-> IF result.props.def THEN result.props.v ELSE <<>>,
     isEnum |-> result.isEnum]

\* lines 845-847: the parameters of an operation without those in a header
withoutHeader(op) ==
    [op EXCEPT !.parameters = SelectSeq(@, LAMBDA item : item.in # "header")]

\* lines 848-858: one property per remaining parameter of the operation
paramProps(cfg, parameters) ==
    [i \in DOMAIN parameters |->
        [name |-> parameters[i].name,
         required |-> parameters[i].required,
         type |-> getType(cfg, IF parameters[i].hasSchema THEN parameters[i].schema
                               ELSE Node0, <<>>)]]

\* lines 871-881: the xxxParams type of the operations that have parameters
RECURSIVE paramTypes(_, _, _, _)
paramTypes(cfg, doc, ops, i) ==
    IF i > Len(ops) THEN <<>>
    ELSE (IF Len(withoutHeader(ops[i].op).parameters) > 0
          THEN << [typeName |-> getTypeName(cfg, doc, [path |-> ops[i].p,
                                                       method |-> ops[i].method,
                                                       op |-> ops[i].op]),
                   type |-> TStr(Lit.Record),
                   props |-> <<paramProps(cfg, withoutHeader(ops[i].op).parameters)>>,
                   isEnum |-> "false"] >>
          ELSE <<>>) \o paramTypes(cfg, doc, ops, i + 1)

\* .sort((a, b) => a.typeName.localeCompare(b.typeName))
RECURSIVE insertByTypeName(_, _)
insertByTypeName(sorted, d) ==
    IF Len(sorted) = 0 THEN <<d>>
    ELSE IF localeCompare(sorted[Len(sorted)].typeName, d.typeName) <= 0 THEN Append(sorted, d)
    ELSE Append(insertByTypeName(SubSeq(sorted, 1, Len(sorted) - 1), d), sorted[Len(sorted)])
RECURSIVE sortByTypeName(_)
sortByTypeName(list) ==
    IF Len(list) = 0 THEN <<>>
    ELSE insertByTypeName(sortByTypeName(SubSeq(list, 1, Len(list) - 1)), list[Len(list)])

\* the document after lines 845-847 ran for every operation
filterHeaders(doc) ==
    [doc EXCEPT !.paths =
        [pi \in DOMAIN @ |->
            [@[pi] EXCEPT !.item = [k \in DOMAIN @ |->
                                      [@[k] EXCEPT !.op = withoutHeader(@)]]]]]

\* getInterfaceTP (lines 808-893) for path items without parameters of their
\* own: the sorted list when the document has components.schemas, undefined
\* (has = FALSE) when it has none; an exception of resolveObject leaves the
\* document as it was
getInterfaceTP(cfg, doc) ==
    IF doc.hasSchemas
       /\ \E k \in DOMAIN doc.schemas : resolveObject(cfg, doc, doc.schemas[k].node).threw
    THEN [threw |-> TRUE, doc |-> doc, has |-> FALSE, out |-> <<>>]
    ELSE [threw |-> FALSE,
          doc |-> filterHeaders(doc),
          has |-> doc.hasSchemas,
          out |-> IF ~doc.hasSchemas THEN <<>>
                  ELSE sortByTypeName(
                         [k \in DOMAIN doc.schemas |->
                            definedType(doc.schemas[k].name, doc.schemas[k].node,
                                        resolveObject(cfg, doc, doc.schemas[k].node))]
                         \o paramTypes(cfg, doc, opsOfDoc(doc, 1), 1))]

----------------------------------------------------------------------------
(* The generator as a state machine.                                       *)

NotCalled == [called |-> FALSE, threw |-> FALSE, has |-> FALSE, out |-> <<>>]

\* the output folder <serversPath>/<projectName>: whether it holds files of
\* an earlier run, whether genFile removed files, and the files it wrote
NoFiles == [previous |-> FALSE, removed |-> FALSE, typings |-> FALSE,
            controllers |-> <<>>, index |-> FALSE]

\* new ServiceGenerator(config, openAPIData): lines 313-358
Construct ==
    /\ pc = "new"
    /\ apiData' = groupOps(config, opsOfDoc(openAPIData, 1), 1, <<>>)
    /\ mappings' = <<>>
    /\ classNameList' = <<>>
    /\ pc' = "ready"
    /\ UNCHANGED <<openAPIData, config, serviceTP, interfaceTP, prevIR, calls, files, fin>>

\* generator.getServiceTP()
GetServiceTP ==
    /\ pc = "ready"
    /\ calls.svc < MaxCalls
    /\ \E r \in {getServiceTP(config, openAPIData, apiData, mappings, classNameList)} :
        /\ openAPIData' = r.doc
        /\ mappings' = r.maps
        /\ classNameList' = r.cnl
        /\ serviceTP' = [called |-> TRUE, threw |-> r.threw, has |-> ~r.threw,
                         out |-> IF r.threw THEN <<>> ELSE r.out]
    /\ calls' = [calls EXCEPT !.svc = @ + 1]
    /\ UNCHANGED <<config, apiData, interfaceTP, prevIR, pc, files, fin>>

\* generator.getInterfaceTP()
GetInterfaceTP ==
    /\ pc = "ready"
    /\ calls.ifc < MaxCalls
    /\ \E r \in {getInterfaceTP(config, openAPIData)} :
        /\ openAPIData' = r.doc
        /\ interfaceTP' = [called |-> TRUE, threw |-> r.threw, has |-> r.has, out |-> r.out]
    /\ calls' = [calls EXCEPT !.ifc = @ + 1]
    /\ UNCHANGED <<config, apiData, mappings, classNameList, serviceTP, prevIR, pc, files,
                   fin>>

\* getFinalFileName (lines 1112-1115) of `${className}.ts`
getFinalFileName(className) ==
    upperAfterSep((IF className = NoStr THEN <<"u","n","d","e","f","i","n","e","d">>
                   ELSE className) \o <<".","t","s">>, NameSeps)

\* genFile, lines 361-374: the files of the folder are removed; a failure of
\* glob or rimraf is logged and the run goes on
GenFileClean ==
    /\ pc = "ready"
    /\ \E ok \in BOOLEAN :
          files' = [files EXCEPT !.previous = IF ok THEN FALSE ELSE @,
                                 !.removed = ok /\ files.previous]
    /\ pc' = "cleaned"
    /\ UNCHANGED <<openAPIData, config, apiData, mappings, classNameList, serviceTP,
                   interfaceTP, prevIR, calls, fin>>

\* genFile, lines 376-382: typings.d.ts is written from getInterfaceTP(); an
\* exception of getInterfaceTP leaves genFile
GenFileTypings ==
    /\ pc = "cleaned"
    /\ \E r \in {getInterfaceTP(config, openAPIData)} :
        /\ openAPIData' = r.doc
        /\ interfaceTP' = [called |-> TRUE, threw |-> r.threw, has |-> r.has, out |-> r.out]
        /\ files' = [files EXCEPT !.typings = IF r.threw THEN @ ELSE TRUE]
        /\ pc' = IF r.threw THEN "failed" ELSE "typed"
    /\ calls' = [calls EXCEPT !.ifc = @ + 1]
    /\ UNCHANGED <<config, apiData, mappings, classNameList, serviceTP, prevIR, fin>>

\* genFile, line 386: this.getServiceTP() is evaluated before the forEach
\* that writes the controllers; its exception leaves genFile
GenFileService ==
    /\ pc = "typed"
    /\ \E r \in {getServiceTP(config, openAPIData, apiData, mappings, classNameList)} :
        /\ openAPIData' = r.doc
        /\ mappings' = r.maps
        /\ classNameList' = r.cnl
        /\ serviceTP' = [called |-> TRUE, threw |-> r.threw, has |-> ~r.threw,
                         out |-> IF r.threw THEN <<>> ELSE r.out]
        /\ pc' = IF r.threw THEN "failed" ELSE "served"
    /\ calls' = [calls EXCEPT !.svc = @ + 1]
    /\ UNCHANGED <<config, apiData, interfaceTP, prevIR, files, fin>>

\* genFile, lines 386-401: the controller file of the next tag group
GenFileController ==
    /\ pc = "served"
    /\ Len(files.controllers) < Len(serviceTP.out)
    /\ files' = [files EXCEPT !.controllers =
                    Append(@, getFinalFileName(
                                 serviceTP.out[Len(files.controllers) + 1].className))]
    /\ UNCHANGED <<openAPIData, config, apiData, mappings, classNameList, serviceTP,
                   interfaceTP, prevIR, calls, pc, fin>>

\* genFile, lines 407-411: index.ts, after the last controller file
GenFileIndex ==
    /\ pc = "served"
    /\ Len(files.controllers) = Len(serviceTP.out)
    /\ files' = [files EXCEPT !.index = TRUE]
    /\ pc' = "done"
    /\ UNCHANGED <<openAPIData, config, apiData, mappings, classNameList, serviceTP,
                   interfaceTP, prevIR, calls, fin>>

\* the caller keeps the lists of a finished run and starts another one on
\* the same in-memory document with the same configuration
NewRun ==
    /\ pc = "ready"
    /\ calls.run < MaxRuns
    /\ interfaceTP.called /\ ~interfaceTP.threw
    /\ serviceTP.called /\ ~serviceTP.threw
    /\ prevIR' = <<[interface |-> interfaceTP, service |-> serviceTP]>>
    /\ apiData' = <<>> /\ mappings' = <<>> /\ classNameList' = <<>>
    /\ serviceTP' = NotCalled /\ interfaceTP' = NotCalled
    /\ calls' = [svc |-> 0, ifc |-> 0, run |-> calls.run + 1]
    /\ pc' = "new"
    /\ UNCHANGED <<openAPIData, config, files, fin>>

\* this.getType(schema) of a schema held in fin
ApplyGetType ==
    /\ pc = "pure"
    /\ fin.op = "none"
    /\ fin' = [fin EXCEPT !.op = "getType", !.type = getType(config, fin.schema, <<>>)]
    /\ UNCHANGED <<openAPIData, config, apiData, mappings, classNameList, serviceTP,
                   interfaceTP, prevIR, calls, pc, files>>

\* this.resolveObject(schema) of a schema held in fin
ApplyResolveObject ==
    /\ pc = "pure"
    /\ fin.op = "none"
    /\ fin' = [fin EXCEPT !.op = "resolveObject",
                          !.res = resolveObject(config, openAPIData, fin.schema)]
    /\ UNCHANGED <<openAPIData, config, apiData, mappings, classNameList, serviceTP,
                   interfaceTP, prevIR, calls, pc, files>>

\* resolveTypeName(name) of a name held in fin
ApplyResolveTypeName ==
    /\ pc = "name"
    /\ fin.op = "none"
    /\ fin' = [fin EXCEPT !.op = "resolveTypeName", !.out = resolveTypeName(fin.name)]
    /\ UNCHANGED <<openAPIData, config, apiData, mappings, classNameList, serviceTP,
                   interfaceTP, prevIR, calls, pc, files>>

Config0 == [isCamelCase |-> FALSE, namespace |-> <<"A","P","I">>,
            dataFields |-> Undefined, apiPrefix |-> NoPrefix,
            customFileNames |-> NoHook, customFunctionName |-> "none",
            customTypeName |-> NoHook, customClassName |-> NoHook,
            customType |-> NoHook,
            enumStyle |-> "string-literal"]

Doc0 == [paths |-> <<>>, hasSchemas |-> FALSE, schemas |-> <<>>, responses |-> <<>>]

\* the state before the constructor runs on document d with configuration c
Start(docs, cfgs) ==
    /\ openAPIData \in docs
    /\ config \in cfgs
    /\ apiData = <<>> /\ mappings = <<>> /\ classNameList = <<>>
    /\ serviceTP = NotCalled /\ interfaceTP = NotCalled
    /\ prevIR = <<>>
    /\ calls = [svc |-> 0, ifc |-> 0, run |-> 1]
    /\ pc = "new"
    /\ files = NoFiles
    /\ fin = <<>>

\* sequences of 1..n elements of S
SeqsUpTo(S, n) == UNION {[1..k -> S] : k \in 1..n}

---------------------------------------------------------------------------- 
(* Documents whose operations differ in operation id and tags.             *)

PathN(i) == <<"/","p">> \o NumStr(i)
T_t == <<"t">>
T_u == <<"u">>
Id_a == <<"a">>
Id_a2 == <<"a","2">>
Id_a__2 == <<"a","_","_","2">>

NameOps ==
    {[Op0 EXCEPT !.operationId = id, !.hasTags = TRUE, !.tags = tags] :
        id \in {Id_a, Id_a2, Id_a__2}, tags \in {<<T_t>>, <<T_t, T_t, T_u>>}}

docOfOps(ops) ==
    [Doc0 EXCEPT !.paths = [i \in DOMAIN ops |->
        [path |-> PathN(i), item |-> << [method |-> "get", op |-> ops[i]] >>]]]

NameDocs == {docOfOps(ops) : ops \in SeqsUpTo(NameOps, MaxOps)}
NameConfigs ==
    {[Config0 EXCEPT !.isCamelCase = c, !.customFunctionName = h] :
        c \in BOOLEAN, h \in {"none", "empty"}}

NextService == Construct \/ GetServiceTP

InitNames == Start(NameDocs, NameConfigs)
SpecNames == InitNames /\ [][NextService]_vars

----------------------------------------------------------------------------
(* Function names within a tag (SpecNames).                                *)

Done == serviceTP.called /\ ~serviceTP.threw

\* the operations of a tag that getServiceTP synthesizes, in encounter order
encountered(k) ==
    SelectSeq(apiData[k].list, LAMBDA api : ~includes(api.path, <<"$","{">>))
baseName(api) == getFuncationName(config, openAPIData, api)
\* how many of the first i operations of the tag have the base name of the i-th
occurrence(apis, i) == Cardinality({j \in 1..i : baseName(apis[j]) = baseName(apis[i])})
suffixed(apis, i) ==
    IF occurrence(apis, i) = 1 THEN baseName(apis[i])
    ELSE baseName(apis[i]) \o <<"_">> \o NumStr(occurrence(apis, i))
namesOf(g) == {<<g.list[i].api, g.list[i].functionName>> : i \in DOMAIN g.list}

\* C1: after getServiceTP the function names of the descriptors of one tag
\* group are pairwise distinct (stated here for the runs without a
\* customFunctionName hook).
C1_NamesDistinct ==
    (Done /\ config.customFunctionName = "none") =>
        \A g \in Range(serviceTP.out) : \A i, j \in DOMAIN g.list :
            i # j => g.list[i].functionName # g.list[j].functionName

----------------------------------------------------------------------------
(* Documents whose operations differ in path and declared path parameters  *)
(* (SpecPaths).                                                            *)

P_id == <<"i","d">>
P_pid == <<"p","i","d">>
P_x == <<"x">>

\* a declared path parameter with a string schema
PathParam(name) == Param(name, "path", [Node0 EXCEPT !.type = Lit.string])

\* <<path, declared parameters>>: a placeholder once, twice, declared,
\* undeclared, declared against the order of the path, and plain paths
PathCatalog ==
    { << <<"/","a","/","{","i","d","}">>, <<>> >>,
      << <<"/","a","/","{","i","d","}","/","b","/","{","i","d","}">>, <<>> >>,
      << <<"/","{","x","}","/","b">>, <<PathParam(P_x)>> >>,
      << <<"/","{","a","}","/","c">>, <<>> >>,
      << <<"/","u","/","{","i","d","}","/","p","/","{","p","i","d","}">>,
         <<PathParam(P_pid), PathParam(P_id)>> >>,
      << <<"/","W">>, <<>> >>,
      << <<"/","v","/","x">>, <<>> >> }

pathOp(e) ==
    [path |-> e[1],
     item |-> << [method |-> "get",
                  op |-> [Op0 EXCEPT !.hasTags = TRUE, !.tags = <<T_t>>,
                                     !.hasParameters = e[2] # <<>>,
                                     !.parameters = e[2]]] >>]

\* the keys of `paths` are distinct
PathDocs ==
    {[Doc0 EXCEPT !.paths = [i \in DOMAIN es |-> pathOp(es[i])]] :
        es \in {q \in SeqsUpTo(PathCatalog, MaxOps) :
                  \A i, j \in DOMAIN q : i # j => q[i][1] # q[j][1]}}

PathConfigs ==
    {[Config0 EXCEPT !.apiPrefix = a] :
        a \in {NoPrefix, [k |-> "str", v |-> <<"'","/","v","'">>],
               [k |-> "str", v |-> <<"p","r","e">>]}}

InitPaths == Start(PathDocs, PathConfigs)
SpecPaths == InitPaths /\ [][NextService]_vars

\* the descriptors of all groups of the last getServiceTP()
descriptors == UNION {Range(g.list) : g \in Range(serviceTP.out)}

\* C3: every path parameter of a descriptor carries the alias param<i> of its
\* 0-based position, and the rewritten path contains ${param<i>} for each
\* path parameter and no ${<original name>} placeholder.
C3_AliasedEverywhere ==
    Done => \A d \in descriptors : \A i \in DOMAIN d.params.path :
        /\ d.params.path[i].alias = Lit.param \o NumStr(i - 1)
        /\ includes(d.path, Placeholder(d.params.path[i].alias))
        /\ ~includes(d.path, Placeholder(d.params.path[i].name))

\* the order of the UTF-16 code units of the characters of the model
CodeUnits == <<" ", "!", "\"", "#", "$", "%", "&", "'", "(", ")", "*", "+", ",", "-", ".",
               "/">> \o DigitCh \o <<":", ";", "<", "=", ">", "?", "@">> \o UpperCh
             \o <<"[", "\\", "]", "^", "_">> \o LowerCh \o <<"{", "|", "}", "~">>
codeUnit(c) == CHOOSE k \in DOMAIN CodeUnits : CodeUnits[k] = c
\* a <= b for JavaScript strings
RECURSIVE codeUnitLeq(_, _)
codeUnitLeq(a, b) ==
    IF Len(a) = 0 THEN TRUE
    ELSE IF Len(b) = 0 THEN FALSE
    ELSE IF a[1] # b[1] THEN codeUnit(a[1]) < codeUnit(b[1])
    ELSE codeUnitLeq(Tail(a), Tail(b))

\* C4 as stated, with the order of strings read as the lexicographic order of
\* their code units: in every tag group the final paths are non-decreasing.
C4_SortedByCodeUnit ==
    Done => \A g \in Range(serviceTP.out) : \A i, j \in DOMAIN g.list :
        i < j => codeUnitLeq(g.list[i].path, g.list[j].path)

\* C4 as amended: in every tag group the final (prefixed, alias-rewritten)
\* paths are non-decreasing in the order of String.prototype.localeCompare,
\* whatever the order in which the document lists the operations.
C4_SortedByLocaleCompare ==
    Done => \A g \in Range(serviceTP.out) : \A i, j \in DOMAIN g.list :
        i < j => localeCompare(g.list[i].path, g.list[j].path) <= 0

\* a group of two operations that the document lists against the order of
\* their final paths, and whose raw paths are in the order of the document
C4_Witness ==
    /\ Done
    /\ \E g \in Range(serviceTP.out) :
        /\ Len(g.list) = 2
        /\ g.list[1].api.pi > g.list[2].api.pi
        /\ localeCompare(g.list[2].api.path, g.list[1].api.path) < 0
        /\ localeCompare(g.list[1].path, g.list[2].path) < 0

----------------------------------------------------------------------------
(* Documents whose operations differ in the sources of their tags and in   *)
(* the vendor bundle (SpecTags).                                           *)

T_h == <<"h">>
T_r == <<"r">>
VendorPath == <<"/","v","x">>
VendorExt == [has |-> TRUE, apiName |-> <<"n">>, antTechVersion |-> <<"1">>,
              productCode |-> <<"p">>, antTechApiName |-> VendorPath]

\* no source of tags; an operation id; tags; an empty tag list; a router
\* field besides tags; two tags and the vendor bundle
TagOps ==
    { Op0,
      [Op0 EXCEPT !.operationId = Id_a],
      [Op0 EXCEPT !.operationId = Id_a, !.hasTags = TRUE, !.tags = <<T_t>>],
      [Op0 EXCEPT !.operationId = Id_a, !.hasTags = TRUE, !.tags = <<>>],
      [Op0 EXCEPT !.operationId = Id_a, !.hasTags = TRUE, !.tags = <<T_t>>, !.router = T_r],
      [Op0 EXCEPT !.operationId = Id_a2, !.hasTags = TRUE, !.tags = <<T_t, T_u>>,
                  !.ext = VendorExt] }

\* paths with and without a second segment
TagPaths == { <<"/","p","e","t","s","/","l","i","s","t">>, <<"/","p","e","t","s">>,
              <<"/","s","/","t">> }

TagDocs ==
    {[Doc0 EXCEPT !.paths = [i \in DOMAIN ps |->
        [path |-> ps[i], item |-> << [method |-> "get", op |-> ops[i]] >>]]] :
        <<ps, ops>> \in {q \in SeqsUpTo(TagPaths, MaxOps) \X SeqsUpTo(TagOps, MaxOps) :
                            /\ Len(q[1]) = Len(q[2])
                            /\ \A i, j \in DOMAIN q[1] : i # j => q[1][i] # q[1][j]}}

TagConfigs ==
    {[Config0 EXCEPT !.customFileNames = h] :
        h \in {NoHook, [k |-> "undef", v |-> <<>>], [k |-> "tags", v |-> <<T_h>>]}}

InitTags == Start(TagDocs, TagConfigs)
SpecTags == InitTags /\ [][NextService]_vars

\* the tags of the groups that hold the operation of path index pi
groupsOf(pi) ==
    {apiData[k].tag : k \in {g \in DOMAIN apiData :
                                \E i \in DOMAIN apiData[g].list : apiData[g].list[i].pi = pi}}

\* an operation with no router field, no declared tags and no operation id
noTagSource(op) == ~Truthy(op.router) /\ ~op.hasTags /\ ~Truthy(op.operationId)

\* the tag strings that the stated priority gives an operation
tagsByPriority(cfg, op, path) ==
    IF cfg.customFileNames.k = "tags" THEN cfg.customFileNames.v
    ELSE IF Truthy(op.router) THEN <<op.router>>
    ELSE IF op.hasTags THEN op.tags
    ELSE IF Truthy(op.operationId) THEN <<op.operationId>>
    ELSE <<secondSegment(path)>>

\* C5: after the grouping pass every operation for which a tag can be
\* resolved is in exactly the groups of the tag strings that the priority
\* hook, router field, declared tags, operation id, second path segment
\* gives it.
C5_TagsByPriority ==
    pc = "ready" =>
        \A o \in Range(opsOfDoc(openAPIData, 1)) :
            (config.customFileNames.k = "tags" \/ ~noTagSource(o.op)
             \/ secondSegment(o.p) # NoStr)
            => groupsOf(o.pi) = {tagOf(config, t) :
                                    t \in Range(tagsByPriority(config, o.op, o.p))}

\* C6: an operation for which no tag can be resolved is in no group, so in no
\* group keyed by an empty tag, and in no descriptor list.
C6_UnresolvedOmitted ==
    pc = "ready" =>
        \A o \in Range(opsOfDoc(openAPIData, 1)) :
            (config.customFileNames.k # "tags" /\ noTagSource(o.op)
             /\ secondSegment(o.p) = NoStr)
            => /\ groupsOf(o.pi) = {}
               /\ \A d \in descriptors : d.api.pi # o.pi

\* the (group, entry) pairs of apiData whose operation carries the bundle
vendorPairs ==
    UNION {{<<k, i>> : i \in {j \in DOMAIN apiData[k].list :
                                 apiData[k].list[j].op.ext.has}} : k \in DOMAIN apiData}

\* C7: after getServiceTP the mapping list has one record for each pair of
\* an operation with the vendor bundle and a tag it is grouped under, each
\* with the vendor path, also when getServiceTP has been evaluated again.
C7_OneMappingPerPair ==
    Done => /\ Len(mappings) = Cardinality(vendorPairs)
            /\ \A m \in Range(mappings) : m.antTechApi = VendorPath

----------------------------------------------------------------------------
(* Runs repeated on one in-memory document (SpecRerun).                    *)

P_data == <<"d","a","t","a">>
P_y == <<"y">>
N_Resp == <<"R","e","s","p">>
RefResp == <<"#","/","c","o","m","p","o","n","e","n","t","s","/","s","c","h","e","m","a","s",
             "/","R","e","s","p">>

StringNode == [Node0 EXCEPT !.type = Lit.string]
ObjectNode(props, required) ==
    [Node0 EXCEPT !.type = Lit.object, !.hasProps = TRUE, !.props = props, !.required = required]

\* the schema of the property `data` of Resp: x required by the array of its
\* parent, x with no requirement, x with `required: true` of its own, and x
\* an object with a `required` array of its own
DataNodes ==
    { ObjectNode(<<[key |-> P_x, node |-> StringNode]>>, ReqArr(<<P_x>>)),
      ObjectNode(<<[key |-> P_x, node |-> StringNode]>>, ReqNone),
      ObjectNode(<<[key |-> P_x, node |-> [StringNode EXCEPT !.required = ReqBool(TRUE)]]>>,
                 ReqNone),
      ObjectNode(<<[key |-> P_x,
                    node |-> ObjectNode(<<[key |-> P_y, node |-> StringNode]>>,
                                        ReqArr(<<P_y>>))]>>, ReqNone) }

RespSchemas ==
    {<<>>} \cup {<< [name |-> N_Resp,
                     node |-> ObjectNode(<<[key |-> P_data, node |-> d]>>, ReqNone)] >> :
                    d \in DataNodes}

\* no response content; a reference to Resp; an inline object; a query and
\* a header parameter
RerunOps ==
    { [Op0 EXCEPT !.operationId = Id_a, !.hasTags = TRUE, !.tags = <<T_t>>],
      [Op0 EXCEPT !.operationId = Id_a, !.hasTags = TRUE, !.tags = <<T_t>>,
                  !.resp = [has |-> TRUE, schema |-> [Node0 EXCEPT !.ref = RefResp]]],
      [Op0 EXCEPT !.operationId = Id_a2, !.hasTags = TRUE, !.tags = <<T_t>>,
                  !.resp = [has |-> TRUE,
                            schema |-> ObjectNode(<<[key |-> P_x, node |-> StringNode]>>,
                                                  ReqArr(<<P_x>>))]],
      [Op0 EXCEPT !.operationId = Id_a2, !.hasTags = TRUE, !.tags = <<T_u>>,
                  !.hasParameters = TRUE,
                  !.parameters = <<Param(P_id, "query", StringNode),
                                   Param(P_x, "header", StringNode)>>] }

RerunDocs ==
    {[docOfOps(ops) EXCEPT !.hasSchemas = sch # <<>>, !.schemas = sch] :
        ops \in SeqsUpTo(RerunOps, MaxOps), sch \in RespSchemas}

RerunConfigs ==
    {[Config0 EXCEPT !.dataFields = f] : f \in {Undefined, Defined(<<P_data>>)}}

NextRerun == Construct \/ GetInterfaceTP \/ GetServiceTP \/ NewRun

InitRerun == Start(RerunDocs, RerunConfigs)
SpecRerun == InitRerun /\ [][NextRerun]_vars

\* names, types and ordering of the two lists of a run
typesOf(ifc) ==
    [i \in DOMAIN ifc.out |->
        [typeName |-> ifc.out[i].typeName, type |-> ifc.out[i].type,
         props |-> ifc.out[i].props, isEnum |-> ifc.out[i].isEnum]]
groupsIR(svc) ==
    [k \in DOMAIN svc.out |->
        [className |-> svc.out[k].className,
         list |-> [i \in DOMAIN svc.out[k].list |->
                     [functionName |-> svc.out[k].list[i].functionName,
                      typeName |-> svc.out[k].list[i].typeName,
                      path |-> svc.out[k].list[i].path,
                      method |-> svc.out[k].list[i].method,
                      params |-> svc.out[k].list[i].params,
                      response |-> svc.out[k].list[i].response]]]]

\* C8: when a second run on the same in-memory document has finished both
\* synthesis passes, its type list and its tag groups equal those of the
\* first run.
C8_RerunEqualIR ==
    (/\ calls.run = 2
     /\ interfaceTP.called /\ ~interfaceTP.threw
     /\ serviceTP.called /\ ~serviceTP.threw)
    => /\ typesOf(interfaceTP) = typesOf(prevIR[1].interface)
       /\ groupsIR(serviceTP) = groupsIR(prevIR[1].service)

----------------------------------------------------------------------------
(* Type expressions and property groups of single schemas (SpecTypes).     *)

N_A == <<"A">>
RefA == <<"#","/","c","o","m","p","o","n","e","n","t","s","/","s","c","h","e","m","a","s",
          "/","A">>
RefBC == <<"#","/","c","o","m","p","o","n","e","n","t","s","/","s","c","h","e","m","a","s",
           "/","b","-","c">>
NumberNode == [Node0 EXCEPT !.type = Lit.number]

\* strings, a string that spells a number, a number, null and a boolean
EnumValues ==
    { JSVal("str", <<"a">>), JSVal("str", <<"b">>), JSVal("str", <<"1">>),
      JSVal("num", <<"1">>), JSVal("null", Lit.null), JSVal("bool", <<"t","r","u","e">>) }

EnumSchemas ==
    {[Node0 EXCEPT !.type = Lit.string, !.hasEnum = TRUE, !.enum = e] :
        e \in SeqsUpTo(EnumValues, MaxEnum)}

\* members of an allOf: references, an object with a property, an object
\* with an empty `properties`, an object without `properties`
AllOfMembers ==
    { [Node0 EXCEPT !.ref = RefA], [Node0 EXCEPT !.ref = RefBC],
      ObjectNode(<<[key |-> P_x, node |-> StringNode]>>, ReqArr(<<P_x>>)),
      ObjectNode(<<>>, ReqNone),
      [Node0 EXCEPT !.type = Lit.object] }

\* the node's own `properties`: absent, empty, or one property
AllOfSchemas ==
    {[own EXCEPT !.allOf = m] :
        m \in SeqsUpTo(AllOfMembers, MaxAllOf),
        own \in {Node0, [Node0 EXCEPT !.hasProps = TRUE],
                 [Node0 EXCEPT !.hasProps = TRUE,
                               !.props = <<[key |-> P_y, node |-> NumberNode]>>]}}

TypeDoc ==
    [Doc0 EXCEPT !.hasSchemas = TRUE,
                 !.schemas = << [name |-> N_A,
                                 node |-> ObjectNode(<<[key |-> P_id, node |-> NumberNode]>>,
                                                     ReqNone)] >>]

TypeConfigs == {[Config0 EXCEPT !.enumStyle = e] : e \in {"string-literal", "enum"}}

InitTypes ==
    /\ openAPIData = TypeDoc
    /\ config \in TypeConfigs
    /\ apiData = <<>> /\ mappings = <<>> /\ classNameList = <<>>
    /\ serviceTP = NotCalled /\ interfaceTP = NotCalled
    /\ prevIR = <<>>
    /\ calls = [svc |-> 0, ifc |-> 0, run |-> 1]
    /\ pc = "pure"
    /\ files = NoFiles
    /\ fin \in {[op |-> "none", schema |-> sch, type |-> <<>>,
                  res |-> Resolved(TUndef, Undefined, "undef")] :
                    sch \in EnumSchemas \cup AllOfSchemas}

NextTypes == ApplyGetType \/ ApplyResolveObject
SpecTypes == InitTypes /\ [][NextTypes]_vars

\* the text of the union member of an enum value
memberText(v) ==
    IF v.k = "str" THEN <<"\"">> \o v.v \o <<"\"">>
    ELSE IF v.k = "null" THEN Lit.any
    ELSE v.v

\* the elements of a that no earlier element equals, in order
RECURSIVE keepFirsts(_, _)
keepFirsts(a, i) ==
    IF i > Len(a) THEN <<>>
    ELSE (IF \A j \in 1..(i - 1) : a[j] # a[i] THEN <<a[i]>> ELSE <<>>) \o keepFirsts(a, i + 1)

unionOfFirsts(enum) ==
    join(keepFirsts([i \in DOMAIN enum |-> memberText(enum[i])], 1), Lit.Or)

\* C9: the type expression of a schema with an enum array, from getType and
\* from resolveObject in string-literal style, is the " | "-joined list of
\* the member texts in first-occurrence order, each text once.
C9_EnumUnionDeduplicated ==
    /\ (fin.op = "getType" /\ fin.schema.hasEnum)
         => fin.type = unionOfFirsts(fin.schema.enum)
    /\ (fin.op = "resolveObject" /\ fin.schema.hasEnum
         /\ config.enumStyle = "string-literal")
         => fin.res.type = TStr(unionOfFirsts(fin.schema.enum))

\* getType ran on an enum with a repeated value and two distinct values
C9_Witness ==
    /\ fin.op = "getType"
    /\ fin.schema.hasEnum
    /\ \E i, j \in DOMAIN fin.schema.enum : i < j /\ fin.schema.enum[i] = fin.schema.enum[j]
    /\ Cardinality(Range(fin.schema.enum)) >= 2
    /\ includes(fin.type, Lit.Or)

keysOf(schemaObject) == [i \in DOMAIN schemaObject.props |-> schemaObject.props[i].key]
namesOf10(group) == [i \in DOMAIN group |-> group[i].name]

----------------------------------------------------------------------------
(* The example of the specification: GET /pets/{id} with a response that   *)
(* references the schema Pet (SpecPet).                                    *)

PetPath == <<"/","p","e","t","s","/","{","i","d","}">>
Id_getPetById == <<"g","e","t","P","e","t","B","y","I","d">>
Id_get_pet == <<"g","e","t","_","p","e","t">>
N_Pet == <<"P","e","t">>
P_name == <<"n","a","m","e">>
RefPet == <<"#","/","c","o","m","p","o","n","e","n","t","s","/","s","c","h","e","m","a","s",
            "/","P","e","t">>

\* Pet = {id: number, name: string} with the given `required`
PetNode(required) ==
    ObjectNode(<<[key |-> P_id, node |-> NumberNode], [key |-> P_name, node |-> StringNode]>>,
               required)

PetRequired == {ReqArr(<<P_name>>), ReqNone, ReqArr(<<P_id, P_name>>)}

\* the selected response: no content, a reference to Pet, the schema inline
PetResponses ==
    {NoResp, [has |-> TRUE, schema |-> [Node0 EXCEPT !.ref = RefPet]]}
    \cup {[has |-> TRUE, schema |-> PetNode(r)] : r \in PetRequired}

PetDocs ==
    {[Doc0 EXCEPT !.paths = << [path |-> PetPath,
                                item |-> << [method |-> "get",
                                             op |-> [Op0 EXCEPT !.operationId = id,
                                                                !.resp = resp]] >>] >>,
                  !.hasSchemas = TRUE,
                  !.schemas = << [name |-> N_Pet, node |-> PetNode(r)] >>] :
        id \in {Id_getPetById, Id_get_pet, NoStr}, resp \in PetResponses, r \in PetRequired}

PetConfigs ==
    {[Config0 EXCEPT !.namespace = n, !.dataFields = f, !.isCamelCase = c] :
        n \in {<<"N">>, <<"A","P","I">>, <<>>},
        f \in {Undefined, Defined(<<P_data>>)},
        c \in BOOLEAN}

InitPet == Start(PetDocs, PetConfigs)
SpecPet == InitPet /\ [][NextService]_vars

\* a function name made of letters and digits only, not all of them digits
plainName(name) ==
    /\ \A i \in DOMAIN name : IsLower(name[i]) \/ IsUpper(name[i]) \/ IsDigit(name[i])
    /\ \E i \in DOMAIN name : ~IsDigit(name[i])

\* C11 as stated: the parameter type name of a descriptor is the namespace,
\* a dot, the function name with an upper-case first letter, and Params.
C11_QualifiedUpperFirst ==
    Done => \A d \in descriptors :
        d.typeName = (IF Truthy(config.namespace) THEN config.namespace \o <<".">> ELSE <<>>)
                     \o upperFirst(baseName(d.api)) \o Lit.Params

\* C11 as amended: with no customTypeName hook the parameter type name of a
\* descriptor is the name-resolved <functionName>Params: it carries no
\* namespace qualifier whatever namespace is configured, and a function name
\* of letters and digits is kept with its own capitalisation.
C11_UnqualifiedName ==
    Done => \A d \in descriptors :
        /\ ~includes(d.typeName, <<".">>)
        /\ d.typeName = resolveTypeName(baseName(d.api) \o Lit.Params)
        /\ plainName(baseName(d.api)) => d.typeName = baseName(d.api) \o Lit.Params

\* the example: operation id getPetById under namespace N
C11_Witness ==
    /\ Done /\ config.namespace = <<"N">>
    /\ \E d \in descriptors :
          /\ d.api.op.operationId = Id_getPetById
          /\ d.typeName = <<"g","e","t","P","e","t","B","y","I","d","P","a","r","a","m","s">>

\* the structural type of an object schema whose properties are numbers and
\* strings: each property with "?" unless the required list names it
structuralType(schema) ==
    <<"{"," ">> \o
    join([i \in DOMAIN schema.props |->
            <<"'">> \o schema.props[i].key \o <<"'">>
            \o (IF schema.required.k = "arr" /\ schema.props[i].key \in Range(schema.required.a)
                THEN <<>> ELSE <<"?">>)
            \o <<":"," ">>
            \o (IF schema.props[i].node.type = Lit.number THEN Lit.number ELSE Lit.string)
            \o <<";"," ">>], <<>>)
    \o <<"}">>

\* the descriptors whose selected response schema is a reference / is inline
refResponses == {d \in descriptors : d.api.op.resp.has /\ Truthy(d.api.op.resp.schema.ref)}
inlineResponses == {d \in descriptors : d.api.op.resp.has /\ d.api.op.resp.schema.hasProps}

\* C12 as stated: a response schema that references Pet, with no dataFields
\* configured, gives the inline structural type of Pet.
C12_InlineForReference ==
    (Done /\ ~config.dataFields.def) =>
        \A d \in refResponses :
            d.response.type = structuralType(schemaByName(openAPIData, N_Pet).v)

\* C12 as amended: a response schema that references Pet gives the name of
\* the referenced schema, qualified by the namespace when one is configured,
\* whatever the required list of Pet; the structural type with the optional
\* markers of the required list is the type of an inline object schema.
C12_ReferenceByName ==
    Done =>
        /\ \A d \in refResponses :
              d.response = [mediaType |-> "application/json",
                            type |-> (IF Truthy(config.namespace)
                                      THEN config.namespace \o <<".">> ELSE <<>>) \o N_Pet]
        /\ \A d \in inlineResponses :
              d.response = [mediaType |-> "application/json",
                            type |-> structuralType(d.api.op.resp.schema)]

\* the example: the response references Pet (name required), namespace N, no
\* dataFields
C12_Witness ==
    /\ Done /\ config.namespace = <<"N">> /\ ~config.dataFields.def
    /\ schemaByName(openAPIData, N_Pet).v.required = ReqArr(<<P_name>>)
    /\ \E d \in refResponses : d.response.type = <<"N",".","P","e","t">>

----------------------------------------------------------------------------
(* Configurations with one hook each (SpecHooks).                          *)

HookUndef == [k |-> "undef", v |-> <<>>]
HookStr(v) == [k |-> "str", v |-> v]

\* an operation with tags, a query parameter and a string response, and one
\* with nothing but an operation id
HookOps ==
    { [Op0 EXCEPT !.operationId = Id_a, !.hasTags = TRUE, !.tags = <<T_t>>,
                  !.hasParameters = TRUE,
                  !.parameters = <<Param(P_id, "query", StringNode)>>,
                  !.resp = [has |-> TRUE, schema |-> StringNode]],
      [Op0 EXCEPT !.operationId = Id_a2] }

HookDocs ==
    {[docOfOps(ops) EXCEPT !.hasSchemas = TRUE, !.schemas = TypeDoc.schemas] :
        ops \in SeqsUpTo(HookOps, MaxOps)}

\* no hook, or one hook that returns undefined, an empty value, or a value
HookConfigs ==
    {[Config0 EXCEPT !.customFileNames = h] :
        h \in {NoHook, HookUndef, [k |-> "tags", v |-> <<>>], [k |-> "tags", v |-> <<T_h>>]}}
    \cup {[Config0 EXCEPT !.customFunctionName = h] : h \in {"undef", "empty"}}
    \cup {[Config0 EXCEPT !.customTypeName = h] : h \in {HookUndef, HookStr(<<>>), HookStr(T_h)}}
    \cup {[Config0 EXCEPT !.customClassName = h] : h \in {HookUndef, HookStr(<<>>), HookStr(T_h)}}
    \cup {[Config0 EXCEPT !.customType = h] : h \in {HookUndef, HookStr(<<>>), HookStr(T_h)}}

NextPasses == Construct \/ GetInterfaceTP \/ GetServiceTP

InitHooks == Start(HookDocs, HookConfigs)
SpecHooks == InitHooks /\ [][NextPasses]_vars

\* every hook of the configuration is absent or returns undefined or an
\* empty value
sentinelHooks(cfg) ==
    /\ cfg.customFileNames \in {NoHook, HookUndef, [k |-> "tags", v |-> <<>>]}
    /\ cfg.customFunctionName \in {"none", "undef", "empty"}
    /\ cfg.customTypeName \in {NoHook, HookUndef, HookStr(<<>>)}
    /\ cfg.customClassName \in {NoHook, HookUndef, HookStr(<<>>)}
    /\ cfg.customType \in {NoHook, HookUndef, HookStr(<<>>)}

\* the configuration without its hooks
withoutHooks(cfg) ==
    [cfg EXCEPT !.customFileNames = NoHook, !.customFunctionName = "none",
                !.customTypeName = NoHook, !.customClassName = NoHook,
                !.customType = NoHook]

\* the groups and the two lists that the configuration without hooks gives
defaultGroups == groupOps(withoutHooks(config), opsOfDoc(openAPIData, 1), 1, <<>>)
defaultService == getServiceTP(withoutHooks(config), openAPIData, defaultGroups, <<>>, <<>>)
defaultInterface == getInterfaceTP(withoutHooks(config), openAPIData)

\* C13: with hooks that return undefined or an empty value, the tags of the
\* grouping pass, and the function names, type names, class names and type
\* expressions of both lists, are those of the configuration without hooks.
C13_HooksDefer ==
    sentinelHooks(config) =>
        /\ pc = "ready" => apiData = defaultGroups
        /\ Done => groupsIR(serviceTP) = groupsIR(defaultService)
        /\ (interfaceTP.called /\ ~interfaceTP.threw)
             => typesOf(interfaceTP) = typesOf(defaultInterface)

----------------------------------------------------------------------------
(* Runs of genFile on documents with references that do not resolve and    *)
(* with non-conformant schemas (SpecGen).                                  *)

N_Gone == <<"G","o","n","e">>
RefGone == <<"#","/","c","o","m","p","o","n","e","n","t","s","/","s","c","h","e","m","a","s",
             "/","G","o","n","e">>
GoneNode == [Node0 EXCEPT !.ref = RefGone]

\* the schema named A: a conformant object; an object with a property, an
\* array with items, an allOf with a member that reference the missing
\* schema Gone; a bare reference to Gone; an object with `required: true`
GenSchemas ==
    { ObjectNode(<<[key |-> P_id, node |-> NumberNode]>>, ReqNone),
      ObjectNode(<<[key |-> P_x, node |-> GoneNode]>>, ReqNone),
      [Node0 EXCEPT !.type = Lit.array, !.hasItems = TRUE, !.items = <<GoneNode>>],
      [Node0 EXCEPT !.allOf = <<GoneNode>>],
      GoneNode,
      ObjectNode(<<[key |-> P_id, node |-> NumberNode]>>, ReqBool(TRUE)) }

\* an operation without a response; responses that reference A and Gone; an
\* inline response object with `required: true`
GenOps ==
    { [Op0 EXCEPT !.operationId = Id_a, !.hasTags = TRUE, !.tags = <<T_t>>],
      [Op0 EXCEPT !.operationId = Id_a, !.hasTags = TRUE, !.tags = <<T_u>>,
                  !.resp = [has |-> TRUE, schema |-> [Node0 EXCEPT !.ref = RefA]]],
      [Op0 EXCEPT !.operationId = Id_a, !.hasTags = TRUE, !.tags = <<T_u>>,
                  !.resp = [has |-> TRUE, schema |-> GoneNode]],
      [Op0 EXCEPT !.operationId = Id_a, !.hasTags = TRUE, !.tags = <<T_u>>,
                  !.resp = [has |-> TRUE,
                            schema |-> ObjectNode(<<[key |-> P_x, node |-> StringNode]>>,
                                                  ReqBool(TRUE))]] }

GenDocs ==
    {[docOfOps(ops) EXCEPT !.hasSchemas = TRUE,
                           !.schemas = << [name |-> N_A, node |-> sch] >>] :
        ops \in SeqsUpTo(GenOps, MaxOps), sch \in GenSchemas}

NextGen ==
    \/ Construct
    \/ GenFileClean
    \/ GenFileTypings
    \/ GenFileService
    \/ GenFileController
    \/ GenFileIndex

InitGen ==
    /\ openAPIData \in GenDocs
    /\ config = Config0
    /\ apiData = <<>> /\ mappings = <<>> /\ classNameList = <<>>
    /\ serviceTP = NotCalled /\ interfaceTP = NotCalled
    /\ prevIR = <<>>
    /\ calls = [svc |-> 0, ifc |-> 0, run |-> 1]
    /\ pc = "new"
    /\ files \in {[NoFiles EXCEPT !.previous = b] : b \in BOOLEAN}
    /\ fin = <<>>

SpecGen == InitGen /\ [][NextGen]_vars

\* the references of a schema node, at any depth
RECURSIVE refsIn(_)
refsIn(node) ==
    (IF Truthy(node.ref) THEN {node.ref} ELSE {})
    \cup UNION {refsIn(node.props[i].node) : i \in DOMAIN node.props}
    \cup UNION {refsIn(node.items[i]) : i \in DOMAIN node.items}
    \cup UNION {refsIn(node.allOf[i]) : i \in DOMAIN node.allOf}
    \cup UNION {refsIn(node.oneOf[i]) : i \in DOMAIN node.oneOf}
    \cup UNION {refsIn(node.anyOf[i]) : i \in DOMAIN node.anyOf}

\* the references of the document: of its named schemas and of the response
\* schemas of its operations
refsOfDoc(doc) ==
    UNION {refsIn(doc.schemas[k].node) : k \in DOMAIN doc.schemas}
    \cup UNION {refsIn(o.op.resp.schema) : o \in {x \in Range(opsOfDoc(doc, 1)) : x.op.resp.has}}

\* a reference #/components/schemas/<name> to a schema the document has
resolves(doc, ref) == schemaByName(doc, pop(split(ref, "/"))).def

\* C14: when the document holds a reference whose target does not exist, the
\* run of genFile does not get past synthesis: it fails, and writes no
\* controller file and no index file.
C14_DanglingRefAborts ==
    (\E ref \in refsOfDoc(openAPIData) : ~resolves(openAPIData, ref))
        => /\ pc \notin {"served", "done"}
           /\ files.controllers = <<>> /\ ~files.index

----------------------------------------------------------------------------
(* Identifiers from resolveTypeName (SpecIdent).                           *)

\* letters that spell a reserved word, a digit and the separators
NameChars == {"i", "n", "1", "_", ".", "-"}

\* the strings of at most MaxName characters
NameInputs == UNION {[1..k -> NameChars] : k \in 0..MaxName}

InitIdent ==
    /\ openAPIData = Doc0
    /\ config = Config0
    /\ apiData = <<>> /\ mappings = <<>> /\ classNameList = <<>>
    /\ serviceTP = NotCalled /\ interfaceTP = NotCalled
    /\ prevIR = <<>>
    /\ calls = [svc |-> 0, ifc |-> 0, run |-> 1]
    /\ pc = "name"
    /\ files = NoFiles
    /\ fin \in {[op |-> "none", name |-> n, out |-> <<>>] : n \in NameInputs}

NextIdent == ApplyResolveTypeName
SpecIdent == InitIdent /\ [][NextIdent]_vars

\* C15: the identifier that resolveTypeName returns is not empty, is not a
\* reserved word and does not start with a digit.
C15_ValidIdentifier ==
    fin.op = "resolveTypeName" =>
        /\ Len(fin.out) > 0
        /\ ~ReservedCheck(fin.out)
        /\ ~IsDigit(fin.out[1])

----------------------------------------------------------------------------
(* The global type list (SpecRerun).                                       *)

\* the operations of the document with a parameter that is not in a header
withParams(doc) ==
    {o \in Range(opsOfDoc(doc, 1)) :
        \E i \in DOMAIN o.op.parameters : o.op.parameters[i].in # "header"}

\* C16: the list that getInterfaceTP returns has one entry for each named
\* schema and one Params entry for each operation with a parameter that is
\* not in a header, and nothing else, in the order of typeName; a document
\* without named schemas gets the list of its Params entries (`undefined`
\* is read as the empty list).
C16_OnePerSchemaAndOperation ==
    (interfaceTP.called /\ ~interfaceTP.threw) =>
        /\ Len(interfaceTP.out)
             = Len(openAPIData.schemas) + Cardinality(withParams(openAPIData))
        /\ \A k \in DOMAIN openAPIData.schemas :
              \E i \in DOMAIN interfaceTP.out :
                 interfaceTP.out[i].typeName = resolveTypeName(openAPIData.schemas[k].name)
        /\ \A o \in withParams(openAPIData) :
              \E i \in DOMAIN interfaceTP.out :
                 /\ interfaceTP.out[i].typeName
                      = getTypeName(config, openAPIData,
                                    [path |-> o.p, method |-> o.method, op |-> o.op])
                 /\ Len(interfaceTP.out[i].props[1])
                      = Cardinality({j \in DOMAIN o.op.parameters :
                                        o.op.parameters[j].in # "header"})
        /\ \A i, j \in DOMAIN interfaceTP.out :
              i < j => localeCompare(interfaceTP.out[i].typeName,
                                     interfaceTP.out[j].typeName) <= 0

----------------------------------------------------------------------------
(* C17: a failing operation aborts the whole run of genFile.               *)

\* the operations of the groups that getServiceTP synthesizes (line 447)
synthesized(data) ==
    {api \in UNION {Range(data[k].list) : k \in DOMAIN data} :
        ~includes(api.path, <<"$","{">>)}

\* the operations whose descriptor cannot be built from the document
failingOps == {api \in synthesized(apiData) : getResponseTP(config, openAPIData, api).threw}

\* C17: once genFile has called getServiceTP on a document with an operation
\* whose descriptor cannot be built, the exception has left getServiceTP and
\* genFile, and the run has written no controller file and no index file,
\* also for the tags whose operations were all synthesized.
C17_FailFast ==
    (serviceTP.called /\ failingOps # {}) =>
        /\ serviceTP.threw
        /\ pc = "failed"
        /\ files.controllers = <<>>
        /\ ~files.index

\* a run that failed in getServiceTP on a document with two tags, one whose
\* operations are all synthesized and one with a failing operation, after
\* typings.d.ts was written
C17_Witness ==
    /\ pc = "failed"
    /\ serviceTP.threw
    /\ files.typings
    /\ Len(apiData) = 2
    /\ \E k \in DOMAIN apiData :
          /\ Range(apiData[k].list) \cap failingOps = {}
          /\ Range(apiData[k].list) \cap synthesized(apiData) # {}
    /\ \E k \in DOMAIN apiData : Range(apiData[k].list) \cap failingOps # {}

----------------------------------------------------------------------------
(* C18: the order of synthesis and output in a run of genFile.             *)

\* the run has touched the output folder: previous output was removed or a
\* file of the run was written
outputTouched ==
    files.removed \/ files.typings \/ files.controllers # <<>> \/ files.index

\* C18: in a run of genFile every step that synthesizes (a call of
\* getInterfaceTP or of getServiceTP) is taken while the output folder is
\* still untouched: nothing was removed and no file of the run was written.
C18_SynthesisBeforeWrites ==
    [][(calls'.ifc # calls.ifc \/ calls'.svc # calls.svc) => ~outputTouched]_vars

----------------------------------------------------------------------------
(* C19: the input document under the passes.                               *)

\* C19: no step of the engine (the constructor, getInterfaceTP, getServiceTP,
\* in any order and any number of times) changes the input document: every
\* operation object, parameter list and schema node stays as it was.
C19_DocumentReadOnly == [][openAPIData' = openAPIData]_vars

----------------------------------------------------------------------------
(* C20: what makes a run throw.                                            *)

\* C20: a run of genFile on a document whose references all resolve does
\* not throw, whatever non-conformant shapes the document holds: neither
\* getInterfaceTP nor getServiceTP raises an exception.
C20_OnlyDanglingRefsThrow ==
    (\A ref \in refsOfDoc(openAPIData) : resolves(openAPIData, ref)) =>
        /\ pc # "failed"
        /\ ~interfaceTP.threw
        /\ ~serviceTP.threw

----------------------------------------------------------------------------
(* Documents whose operations repeat a tag or carry tag strings that       *)
(* resolve to one tag identifier (SpecDup).                                *)

\* one tag; the same tag string twice; two tag strings that sanitize to one
\* identifier; two tag strings that differ in case; two tags; another tag
DupOps ==
    { [Op0 EXCEPT !.operationId = Id_a, !.hasTags = TRUE, !.tags = <<T_t>>],
      [Op0 EXCEPT !.operationId = Id_a, !.hasTags = TRUE, !.tags = <<T_t, T_t>>],
      [Op0 EXCEPT !.operationId = Id_a, !.hasTags = TRUE, !.tags = <<T_t, <<"t","!">>>>],
      [Op0 EXCEPT !.operationId = Id_a, !.hasTags = TRUE, !.tags = <<<<"T">>, T_t>>],
      [Op0 EXCEPT !.operationId = Id_a, !.hasTags = TRUE, !.tags = <<T_t, T_u>>],
      [Op0 EXCEPT !.operationId = Id_a, !.hasTags = TRUE, !.tags = <<T_u>>] }

DupDocs == {docOfOps(ops) : ops \in SeqsUpTo(DupOps, MaxOps)}
DupConfigs == {[Config0 EXCEPT !.isCamelCase = c] : c \in BOOLEAN}

InitDup == Start(DupDocs, DupConfigs)
SpecDup == InitDup /\ [][NextService]_vars

\* how often the operation of path index pi is in the list
occurrences(list, pi) == Cardinality({i \in DOMAIN list : list[i].pi = pi})

\* C21: after the grouping pass an operation is exactly once in the list of
\* every tag identifier that one of its tag strings resolves to, and in no
\* other list; in particular no list holds it twice, also when its tag
\* strings repeat or resolve to the same identifier.
C21_OncePerTag ==
    pc = "ready" =>
        \A o \in Range(opsOfDoc(openAPIData, 1)) : \A k \in DOMAIN apiData :
            occurrences(apiData[k].list, o.pi)
              = IF apiData[k].tag \in {tagOf(config, t) :
                                          t \in Range(tagsOf(config, o.op, o.p))}
                THEN 1 ELSE 0

----------------------------------------------------------------------------
(* Operations with a request body (SpecFile).                              *)

P_f == <<"f">>
P_g == <<"g">>
BinaryNode == [Node0 EXCEPT !.type = Lit.string, !.format = Lit.binary]
BinaryArray == [Node0 EXCEPT !.type = Lit.array, !.hasItems = TRUE, !.items = <<BinaryNode>>]

\* the schema named A, the target of the reference of a body
FileSchemaA == ObjectNode(<<[key |-> P_f, node |-> BinaryNode]>>, ReqNone)

\* body schemas: a binary property next to a string; an array of binaries;
\* a binary property in the second allOf member; one in the node's own
\* properties next to an allOf; a reference to A; a string
FileSchemas ==
    { ObjectNode(<<[key |-> P_x, node |-> StringNode], [key |-> P_f, node |-> BinaryNode]>>,
                 ReqNone),
      ObjectNode(<<[key |-> P_g, node |-> BinaryArray]>>, ReqNone),
      [Node0 EXCEPT !.allOf = << ObjectNode(<<[key |-> P_x, node |-> StringNode]>>, ReqNone),
                                 ObjectNode(<<[key |-> P_f, node |-> BinaryNode]>>, ReqNone) >>],
      [ObjectNode(<<[key |-> P_g, node |-> BinaryArray]>>, ReqNone)
          EXCEPT !.allOf = << ObjectNode(<<[key |-> P_f, node |-> BinaryNode]>>, ReqNone) >>],
      [Node0 EXCEPT !.ref = RefA],
      StringNode }

\* multipart bodies with these schemas, and a JSON body
FileOps ==
    {[Op0 EXCEPT !.operationId = Id_a, !.hasTags = TRUE, !.tags = <<T_t>>,
                 !.body = [has |-> TRUE, mediaType |-> FormData, hasSchema |-> TRUE,
                           schema |-> sch]] : sch \in FileSchemas}
    \cup {[Op0 EXCEPT !.operationId = Id_a, !.hasTags = TRUE, !.tags = <<T_t>>,
                      !.body = [has |-> TRUE,
                                mediaType |-> <<"a","p","p","l","i","c","a","t","i","o","n",
                                                "/","j","s","o","n">>,
                                hasSchema |-> TRUE,
                                schema |-> ObjectNode(<<[key |-> P_f, node |-> BinaryNode]>>,
                                                      ReqNone)]]}

FileDocs ==
    {[docOfOps(ops) EXCEPT !.hasSchemas = TRUE,
                           !.schemas = << [name |-> N_A, node |-> FileSchemaA] >>] :
        ops \in SeqsUpTo(FileOps, MaxOps)}

InitFile == Start(FileDocs, {Config0})
SpecFile == InitFile /\ [][NextService]_vars

\* resolveFileTP with every group of resolved.props scanned
RECURSIVE resolveFileAll(_, _, _, _)
resolveFileAll(cfg, doc, obj, resolved) ==
    IF resolved.threw THEN FileThrew
    ELSE IF resolved.props.def /\ Len(resolved.props.v) > 0
    THEN IF \E g \in Range(propGroups(cfg, obj)) : \E p \in Range(g) : isFileThrows(p)
         THEN FileThrew
         ELSE [threw |-> FALSE,
               ret |-> fileFields(join(propGroups(cfg, obj), <<>>))]
    ELSE IF resolved.type.k = "node"
    THEN resolveFileAll(cfg, doc, resolved.type.v, resolveObject(cfg, doc, resolved.type.v))
    ELSE [threw |-> FALSE, ret |-> <<>>]

\* C22: the file-field list of an operation with a multipart/form-data body
\* has one {title, multiple} entry for every file property of every
\* property group of the resolved body schema, whichever group declares it.
C22_FilesOfEveryGroup ==
    Done =>
        \A g \in Range(serviceTP.out) : \A d \in Range(g.list) :
            (d.api.op.body.has /\ d.api.op.body.mediaType = FormData) =>
                Range(d.file)
                  = Range(resolveFileAll(config, openAPIData, d.api.op.body.schema,
                             resolveObject(config, openAPIData, d.api.op.body.schema)).ret)

----------------------------------------------------------------------------
(* Path prefixes given as a string and as a callback (SpecPrefix).         *)

Pre_v == <<"/","v">>
Quoted(q, t) == <<q>> \o t \o <<q>>

\* paths that start with the prefix /v, that start with it after no
\* separator, and that do not start with it
PrefixPaths == { <<"/","v","/","a">>, <<"/","v","a">>, <<"/","a">> }

PrefixDocs ==
    {[Doc0 EXCEPT !.paths = [i \in DOMAIN ps |->
        [path |-> ps[i],
         item |-> << [method |-> "get",
                      op |-> [Op0 EXCEPT !.operationId = Id_a, !.hasTags = TRUE,
                                         !.tags = <<T_t>>]] >>]]] :
        ps \in {q \in SeqsUpTo(PrefixPaths, MaxOps) :
                    \A i, j \in DOMAIN q : i # j => q[i] # q[j]}}

\* no prefix; quoted and unquoted texts, given as a string and returned by
\* a callback; a quoted text without the leading slash; a blank string
PrefixConfigs ==
    {[Config0 EXCEPT !.apiPrefix = a] :
        a \in {NoPrefix} \cup
              {[k |-> kind, v |-> t] :
                  kind \in {"str", "fn"},
                  t \in {Quoted("'", Pre_v), Quoted(BackQuote, <<"v">>), Pre_v,
                         <<" ","a","p","i"," ">>, <<" ">>}}}

InitPrefix == Start(PrefixDocs, PrefixConfigs)
SpecPrefix == InitPrefix /\ [][NextService]_vars

\* the path of a descriptor before the prefix: the rewritten path
rewritten(d) == aliasPath(vendorPath(d.api), d.params.path, 1)

\* the text of the prefix: the string, or what the callback returns, trimmed
prefixText(cfg) == IF cfg.apiPrefix.k = "none" THEN <<>> ELSE trim(cfg.apiPrefix.v)
isQuoted(t) == Len(t) > 0 /\ t[1] \in {"'", "\"", BackQuote}
unquote(t) == SubSeq(t, 2, Len(t) - 1)

\* C23 as stated: a prefix given as a string is prepended as it is unless
\* the rewritten path starts with it, and the result of a callback is put in
\* front of the path as the expression ${...}.
C23_ByKindOfPrefix ==
    Done => \A d \in descriptors :
        /\ (config.apiPrefix.k = "str" /\ prefixText(config) # <<>>) =>
              d.path = IF startsWith(rewritten(d), prefixText(config)) THEN rewritten(d)
                       ELSE prefixText(config) \o rewritten(d)
        /\ (config.apiPrefix.k = "fn" /\ prefixText(config) # <<>>) =>
              d.path = Placeholder(prefixText(config)) \o rewritten(d)

\* C23: what decides is the text of the prefix, given as a string or
\* returned by a callback alike. A text that begins with a quote character
\* is a literal: without its first and last character it is prepended to the
\* rewritten path, unless the path already starts with it or with "/" and
\* it, and then the path is unchanged. Any other text that is not blank is
\* put in front of the path as the expression ${text}; without a prefix, or
\* with a blank one, the path is the rewritten path.
C23_ByQuoting ==
    Done => \A d \in descriptors :
        /\ prefixText(config) = <<>> => d.path = rewritten(d)
        /\ isQuoted(prefixText(config)) =>
              /\ d.path \in {rewritten(d), unquote(prefixText(config)) \o rewritten(d)}
              /\ \/ startsWith(d.path, unquote(prefixText(config)))
                 \/ startsWith(d.path, <<"/">> \o unquote(prefixText(config)))
              /\ (d.path = rewritten(d)) <=>
                   \/ startsWith(rewritten(d), unquote(prefixText(config)))
                   \/ startsWith(rewritten(d), <<"/">> \o unquote(prefixText(config)))
        /\ (prefixText(config) # <<>> /\ ~isQuoted(prefixText(config))) =>
              d.path = Placeholder(prefixText(config)) \o rewritten(d)

\* a run with a quoted prefix returned by a callback in which one path got
\* the literal prefix and another, which starts with it, is unchanged
C23_Witness ==
    /\ Done
    /\ config.apiPrefix.k = "fn" /\ isQuoted(prefixText(config))
    /\ \E d \in descriptors : d.path = unquote(prefixText(config)) \o rewritten(d)
                                /\ d.path # rewritten(d)
    /\ \E d \in descriptors : d.path = rewritten(d)

----------------------------------------------------------------------------
(* C24: the default function name.                                         *)

\* a path segment of the form {param}
isBraced(seg) == Len(seg) >= 3 /\ seg[1] = "{" /\ seg[Len(seg)] = "}"

\* the title-cased segments of a full path: each segment name-resolved, a
\* {param} segment as By<Param>
pathTitleCase(path) ==
    join([i \in DOMAIN split(path, "/") |->
            IF isBraced(split(path, "/")[i])
            THEN <<"B","y">> \o upperFirst(resolveTypeName(
                     SubSeq(split(path, "/")[i], 2, Len(split(path, "/")[i]) - 1)))
            ELSE upperFirst(resolveTypeName(split(path, "/")[i]))],
         <<>>)

\* C24: without a customFunctionName hook, the function name of an operation
\* without operationId is the method followed by the title-cased segments of
\* its full path, a {param} segment giving By<Param> (a name that is taken
\* in its tag carries the suffix _n).
C24_MethodAndPathTitleCase ==
    Done => \A d \in descriptors :
        (config.customFunctionName = "none" /\ ~Truthy(d.api.op.operationId)) =>
            d.functionName \in
                {MethodStr(d.api.method) \o pathTitleCase(d.api.path)}
                \cup {MethodStr(d.api.method) \o pathTitleCase(d.api.path)
                         \o <<"_">> \o NumStr(n) : n \in 2..MaxOps}

----------------------------------------------------------------------------
(* Scalar nodes with a type, a format, or both (SpecScalar).               *)

ScalarTypes == { NoStr, Lit.string, Lit.date, Lit.dateTime, Lit.binary,
                 <<"e","m","a","i","l">> }
ScalarFormats == { NoStr, Lit.date, Lit.dateTime, <<"d","a","t","e","t","i","m","e">>,
                   Lit.binary, <<"b","y","t","e">>, <<"p","a","s","s","w","o","r","d">> }
ScalarSchemas ==
    {[Node0 EXCEPT !.type = t, !.format = f] : t \in ScalarTypes, f \in ScalarFormats}

InitScalar ==
    /\ openAPIData = TypeDoc
    /\ config \in TypeConfigs
    /\ apiData = <<>> /\ mappings = <<>> /\ classNameList = <<>>
    /\ serviceTP = NotCalled /\ interfaceTP = NotCalled
    /\ prevIR = <<>>
    /\ calls = [svc |-> 0, ifc |-> 0, run |-> 1]
    /\ pc = "pure"
    /\ files = NoFiles
    /\ fin \in {[op |-> "none", schema |-> sch, type |-> <<>>,
                  res |-> Resolved(TUndef, Undefined, "undef")] : sch \in ScalarSchemas}

SpecScalar == InitScalar /\ [][NextTypes]_vars

\* the families of the claim
dateFamily == { Lit.Date, Lit.date, <<"d","a","t","e","T","i","m","e">>, Lit.dateTime,
                <<"d","a","t","e","t","i","m","e">> }
stringFamily == { Lit.string, <<"e","m","a","i","l">>, <<"p","a","s","s","w","o","r","d">>,
                  <<"u","r","l">>, <<"b","y","t","e">>, Lit.binary }

\* C25: a node that is no reference and no enum and whose `type` or `format`
\* is in the date family synthesizes to Date; otherwise one whose `type` or
\* `format` is in the string family synthesizes to string.
C25_FamilyByTypeOrFormat ==
    (fin.op = "getType" /\ ~Truthy(fin.schema.ref) /\ ~fin.schema.hasEnum) =>
        IF fin.schema.type \in dateFamily \/ fin.schema.format \in dateFamily
        THEN fin.type = Lit.Date
        ELSE (fin.schema.type \in stringFamily \/ fin.schema.format \in stringFamily)
                => fin.type = Lit.string

----------------------------------------------------------------------------
(* Named schemas that are references to each other (SpecRefs).             *)

N_B == <<"B">>
N_C == <<"C">>
RefTo(name) ==
    <<"#","/","c","o","m","p","o","n","e","n","t","s","/","s","c","h","e","m","a","s","/">>
    \o name
RefNames == <<N_A, N_B, N_C>>

\* a named schema: an object, a reference to A, B or C, or a node with an
\* allOf member that references A
RefChoices ==
    { ObjectNode(<<[key |-> P_id, node |-> NumberNode]>>, ReqNone),
      [Node0 EXCEPT !.ref = RefTo(N_A)], [Node0 EXCEPT !.ref = RefTo(N_B)],
      [Node0 EXCEPT !.ref = RefTo(N_C)],
      [Node0 EXCEPT !.allOf = << [Node0 EXCEPT !.ref = RefTo(N_A)] >>] }

\* one operation, without a response or with a response that references A
RefDocs ==
    {[docOfOps(<<[Op0 EXCEPT !.operationId = Id_a, !.hasTags = TRUE, !.tags = <<T_t>>,
                             !.resp = resp]>>)
        EXCEPT !.hasSchemas = TRUE,
               !.schemas = [i \in DOMAIN RefNames |-> [name |-> RefNames[i], node |-> f[i]]]] :
        f \in [DOMAIN RefNames -> RefChoices],
        resp \in {NoResp, [has |-> TRUE, schema |-> [Node0 EXCEPT !.ref = RefTo(N_A)]]}}

InitRefs == Start(RefDocs, {Config0})
SpecRefs == InitRefs /\ [][NextPasses]_vars

\* the schema names that a chain of bare references reaches from the names
\* of a set, in at most n hops
RECURSIVE reach(_, _, _)
reach(doc, names, n) ==
    IF n = 0 THEN names
    ELSE reach(doc,
               names \cup {pop(split(schemaByName(doc, m).v.ref, "/")) :
                              m \in {x \in names : /\ schemaByName(doc, x).def
                                                    /\ Truthy(schemaByName(doc, x).v.ref)}},
               n - 1)

\* the nodes that are no reference at the end of the chain that starts at the
\* schema of a name
chainEnds(doc, name) ==
    {schemaByName(doc, m).v :
        m \in {x \in reach(doc, {name}, Len(doc.schemas)) :
                  schemaByName(doc, x).def /\ ~Truthy(schemaByName(doc, x).v.ref)}}

\* the named schemas that are a reference to a schema that is a reference
twoHops(doc) ==
    {k \in DOMAIN doc.schemas :
        /\ Truthy(doc.schemas[k].node.ref)
        /\ schemaByName(doc, pop(split(doc.schemas[k].node.ref, "/"))).def
        /\ Truthy(schemaByName(doc, pop(split(doc.schemas[k].node.ref, "/"))).v.ref)}

\* the entries of the type list for a schema name
entriesOf(name) ==
    {interfaceTP.out[i] : i \in {j \in DOMAIN interfaceTP.out :
                                     interfaceTP.out[j].typeName = resolveTypeName(name)}}

\* C26 as stated: the type of a named schema that is a reference to a
\* reference is not the node at the end of the chain.
C26_OneHopOnly ==
    (interfaceTP.called /\ ~interfaceTP.threw) =>
        \A k \in twoHops(openAPIData) : \A e \in entriesOf(openAPIData.schemas[k].name) :
            e.type \notin {TNode(n) : n \in chainEnds(openAPIData, openAPIData.schemas[k].name)}

\* C26: resolution follows a chain of references to its end: the type of a
\* named schema that is a reference, to a node or to another reference, is
\* the node that is no reference at the end of the chain.
C26_ChainUnwound ==
    (interfaceTP.called /\ ~interfaceTP.threw) =>
        \A k \in DOMAIN openAPIData.schemas :
            Truthy(openAPIData.schemas[k].node.ref) =>
                /\ entriesOf(openAPIData.schemas[k].name) # {}
                /\ \A e \in entriesOf(openAPIData.schemas[k].name) :
                      /\ e.type.k = "node"
                      /\ ~Truthy(e.type.v.ref)
                      /\ e.type.v \in chainEnds(openAPIData, openAPIData.schemas[k].name)

\* a type list for A -> B -> C with C an object: the type of A is C's node
C26_Witness ==
    /\ interfaceTP.called /\ ~interfaceTP.threw
    /\ openAPIData.schemas[1].node.ref = RefTo(N_B)
    /\ openAPIData.schemas[2].node.ref = RefTo(N_C)
    /\ openAPIData.schemas[3].node.type = Lit.object
    /\ \E e \in entriesOf(N_A) : e.type = TNode(openAPIData.schemas[3].node)

----------------------------------------------------------------------------
(* C27: reference cycles.                                                  *)

\* the named schemas that are a reference whose chain never reaches a node
\* that is no reference: A is a reference to B and B a reference to A
bareCycles(doc) ==
    {k \in DOMAIN doc.schemas :
        Truthy(doc.schemas[k].node.ref) /\ chainEnds(doc, doc.schemas[k].name) = {}}

\* the named schemas with an allOf member that references the schema itself
allOfCycles(doc) ==
    {k \in DOMAIN doc.schemas :
        \E i \in DOMAIN doc.schemas[k].node.allOf :
            doc.schemas[k].node.allOf[i].ref = RefTo(doc.schemas[k].name)}

\* C27 as stated: a document with a reference cycle, of bare references or
\* through allOf, never gets its list of types.
C27_EveryCycleAborts ==
    (interfaceTP.called /\ (bareCycles(openAPIData) # {} \/ allOfCycles(openAPIData) # {}))
        => interfaceTP.threw

\* C27: in a document whose references all have a target, getInterfaceTP
\* fails exactly when a named schema is a bare reference whose chain of
\* references leads back into itself: that recursion has no guard and ends
\* in an exception, so the run has no list of types. A schema with an allOf
\* member that references the schema itself is resolved without following
\* the member, and has its entry in the list.
C27_OnlyBareCyclesAbort ==
    interfaceTP.called =>
        /\ interfaceTP.threw <=> bareCycles(openAPIData) # {}
        /\ ~interfaceTP.threw =>
              \A k \in allOfCycles(openAPIData) :
                  \E e \in entriesOf(openAPIData.schemas[k].name) :
                      e.props = << << [ref |-> RefTo(openAPIData.schemas[k].name),
                                       type |-> openAPIData.schemas[k].name] >> >>

\* a type list of a document in which A has an allOf member that references A
C27_Witness ==
    /\ interfaceTP.called /\ ~interfaceTP.threw
    /\ 1 \in allOfCycles(openAPIData)
    /\ entriesOf(N_A) # {}

----------------------------------------------------------------------------
(* C28: schemas and responses that refer to themselves (SpecLoop).         *)

N_R == <<"R">>
N_L == <<"L">>
RefResponse(name) ==
    <<"#","/","c","o","m","p","o","n","e","n","t","s","/","r","e","s","p","o","n","s","e","s",
      "/">> \o name

\* the schema named A refers to itself: through a property, the items of an
\* array, a member of oneOf, of anyOf and of allOf
LoopSchemas ==
    { ObjectNode(<<[key |-> P_x, node |-> [Node0 EXCEPT !.ref = RefTo(N_A)]]>>, ReqNone),
      [Node0 EXCEPT !.type = Lit.array, !.hasItems = TRUE,
                    !.items = << [Node0 EXCEPT !.ref = RefTo(N_A)] >>],
      [Node0 EXCEPT !.oneOf = << [Node0 EXCEPT !.ref = RefTo(N_A)], StringNode >>],
      [Node0 EXCEPT !.anyOf = << [Node0 EXCEPT !.ref = RefTo(N_A)], StringNode >>],
      [Node0 EXCEPT !.allOf = << [Node0 EXCEPT !.ref = RefTo(N_A)] >>] }

\* the named responses: R has a schema that references A, L is a reference
\* to L itself
LoopResponses ==
    << [name |-> N_R, ref |-> NoStr,
        resp |-> [has |-> TRUE, schema |-> [Node0 EXCEPT !.ref = RefTo(N_A)]]],
       [name |-> N_L, ref |-> RefResponse(N_L), resp |-> NoResp] >>

\* one operation: its body is absent or a multipart body whose schema is a
\* reference to A; its response is absent, a reference to R or to L
LoopOps ==
    {[Op0 EXCEPT !.operationId = Id_a, !.hasTags = TRUE, !.tags = <<T_t>>,
                 !.body = body, !.respRef = ref] :
        body \in {NoBody, [has |-> TRUE, mediaType |-> FormData, hasSchema |-> TRUE,
                           schema |-> [Node0 EXCEPT !.ref = RefTo(N_A)]]},
        ref \in {NoStr, RefResponse(N_R), RefResponse(N_L)}}

\* the schema B is a reference to A, or a reference to B itself
LoopDocs ==
    {[docOfOps(<<op>>) EXCEPT !.hasSchemas = TRUE,
                              !.schemas = << [name |-> N_A, node |-> sch],
                                             [name |-> N_B, node |-> [Node0 EXCEPT !.ref = b]] >>,
                              !.responses = LoopResponses] :
        op \in LoopOps, sch \in LoopSchemas, b \in {RefTo(N_A), RefTo(N_B)}}

InitLoop == Start(LoopDocs, {Config0})
SpecLoop == InitLoop /\ [][NextGen]_vars

\* C28: a document in which no named schema is a bare reference that leads
\* back to itself is generated to the end: no recursion of the run goes on
\* without bound, so the run of genFile does not fail.
C28_TerminatesWithoutBareSchemaCycle ==
    bareCycles(openAPIData) = {} => pc # "failed"

----------------------------------------------------------------------------
(* C29: the parameter type of a descriptor (SpecParams).                   *)

P_q == <<"q">>

\* two operations of one tag with the same operationId and a declared query
\* parameter
CollidingDoc ==
    [docOfOps(<< [Op0 EXCEPT !.operationId = Id_a, !.hasTags = TRUE, !.tags = <<T_t>>,
                             !.hasParameters = TRUE,
                             !.parameters = <<Param(P_q, "query", StringNode)>>],
                 [Op0 EXCEPT !.operationId = Id_a, !.hasTags = TRUE, !.tags = <<T_t>>,
                             !.hasParameters = TRUE,
                             !.parameters = <<Param(P_q, "query", StringNode)>>] >>)
        EXCEPT !.hasSchemas = TRUE]

\* the documents of SpecPaths with and without components.schemas, and the
\* document with the colliding operations
ParamDocs ==
    {[d EXCEPT !.hasSchemas = b] : d \in PathDocs, b \in BOOLEAN} \cup {CollidingDoc}

InitParams == Start(ParamDocs, {Config0})
SpecParams == InitParams /\ [][NextPasses]_vars

\* C29: after both passes of a run, every descriptor with hasParams has a
\* typeName that is the typeName of an entry of the list of types.
C29_ParamTypeExists ==
    (serviceTP.called /\ ~serviceTP.threw /\ interfaceTP.called /\ ~interfaceTP.threw) =>
        \A d \in descriptors :
            d.hasParams =>
                /\ interfaceTP.has
                /\ \E e \in Range(interfaceTP.out) : e.typeName = d.typeName

====
